---- MODULE Spec2Model ----
(***************************************************************************)
(* A byte-level model of the seqstore slab store (RawStore): the tag       *)
(* codec, the Backing, add / get / replace / remove / retain, close and    *)
(* open with its recovery strategies.                                      *)
(*                                                                         *)
(* The backing is the memory map of the store.  A crash is taken between   *)
(* two statements of add; the image found by the next open is the map as   *)
(* it was at that statement (the writes made so far, in program order).    *)
(* Offsets are 0-based as in the code; byte p of a backing b is b[p + 1].  *)
(***************************************************************************)
EXTENDS Integers, Sequences, FiniteSets, TLC

(***************************************************************************)
(* Bounds of the model.                                                    *)
(***************************************************************************)
\* number of successful operations (add, remove, replace, retain, reopen, crash)
\* in a run; a call that fails and changes nothing is not counted
MaxOps == 6
\* number of add calls in a run
MaxAdds == 3
\* number of retain calls in a run
MaxRetains == 1
\* number of crashes in a run
MaxCrashes == 1
\* length of the long payload
LongLen == 130

(***************************************************************************)
(* Program constants.                                                      *)
(***************************************************************************)
MASK == 224
END == 224
WRITING == 160
WRITTEN == 128
DELETED == 192
HEADER_LENGTH == 9
\* the granule Backing grows by, and the size of Backing::new_anon
CHUNK == 256
\* add looks at the first 8 fitting gaps only
GAP_SCAN == 8
\* a gap is split only when at least 5 bytes remain
GAP_SLACK == 5

HEADER_MAGIC == <<31, 80, 76, 70, 109, 97, 112>>
HEADER_VERSION == <<0, 0>>

\* the spec magic of the store under test (Checker::new uses b"checker")
SpecMagic == <<99, 107>>

Fill(n, x) == [i \in 1..n |-> x]
\* the payloads handed to add: empty (a one-byte record) and LongLen bytes (a
\* two-byte tag whose second byte has its top bit set), each byte the End
\* selector
Payloads == {<<>>, Fill(LongLen, END)}
\* the payloads handed to replace: one of the length of a stored payload, one
\* of a length no stored payload has
Replacements == {Fill(LongLen, 66), <<65>>}

(***************************************************************************)
(* Arithmetic helpers.                                                     *)
(***************************************************************************)
RECURSIVE Pow256(_)
Pow256(k) == IF k = 0 THEN 1 ELSE 256 * Pow256(k - 1)

\* 64 - length.leading_zeros()
RECURSIVE NeededBits(_)
NeededBits(n) == IF n = 0 THEN 0 ELSE 1 + NeededBits(n \div 2)

SaturatingSub(a, b) == IF a > b THEN a - b ELSE 0
DivCeil(a, b) == (a + b - 1) \div b

\* length.to_be_bytes(), as a function on 0..7
ToBeBytes(n) == [i \in 0..7 |-> (n \div Pow256(7 - i)) % 256]

Zeros(n) == [i \in 1..n |-> 0]

(***************************************************************************)
(* Backing.                                                                *)
(***************************************************************************)
\* BackingInner::resize_for: grows to the next multiple of CHUNK, never shrinks;
\* the new bytes are zero
ResizeFor(b, len) ==
    IF Len(b) <= len THEN b \o Zeros(((len \div CHUNK) + 1) * CHUNK - Len(b)) ELSE b

\* copy_from_slice into b[pos .. pos + Len(bytes)]
CopyInto(b, pos, bytes) ==
    SubSeq(b, 1, pos) \o bytes \o SubSeq(b, pos + Len(bytes) + 1, Len(b))

\* BackingInner::write
BackingWrite(b, pos, bytes) == CopyInto(ResizeFor(b, pos + Len(bytes)), pos, bytes)

\* slice.fill(0) on b[from .. to]
FillZero(b, from, to) ==
    IF from >= to THEN b ELSE SubSeq(b, 1, from) \o Zeros(to - from) \o SubSeq(b, to + 1, Len(b))

Slice(b, from, to) == SubSeq(b, from + 1, to)

(***************************************************************************)
(* Tag codec.                                                              *)
(***************************************************************************)
KindOf(byte) ==
    LET sel == (byte \div 32) * 32
    IN  IF sel = END THEN "End"
        ELSE IF sel = WRITING THEN "Writing"
        ELSE IF sel = WRITTEN THEN "Written"
        ELSE IF sel = DELETED THEN "Deleted"
        ELSE "Unknown"

Selector(kind) ==
    IF kind = "Writing" THEN WRITING
    ELSE IF kind = "Written" THEN WRITTEN
    ELSE IF kind = "Deleted" THEN DELETED
    ELSE END

\* big-endian value of b[pos .. pos + n]
RECURSIVE BeValue(_, _, _)
BeValue(b, pos, n) ==
    IF n = 0 THEN 0 ELSE BeValue(b, pos, n - 1) * 256 + b[pos + n]

\* a read that takes the length from the bytes after the tag alone
TagReadBytes(b, pos) ==
    IF pos >= Len(b) THEN [kind |-> "Panic", length |-> 0, next |-> pos]
    ELSE
    LET tag == b[pos + 1]
        kind == KindOf(tag)
        len_bytes == (tag \div 8) % 4
    IN  IF kind = "Unknown" THEN [kind |-> "Unknown", length |-> 0, next |-> pos]
        ELSE IF kind = "End" THEN [kind |-> "End", length |-> 0, next |-> pos + 1]
        ELSE IF len_bytes = 0 THEN [kind |-> kind, length |-> tag % 8, next |-> pos + 1]
        ELSE IF pos + 1 + len_bytes > Len(b) THEN [kind |-> "Panic", length |-> 0, next |-> pos]
        ELSE [kind |-> kind, length |-> BeValue(b, pos + 1, len_bytes),
              next |-> pos + 1 + len_bytes]

\* MagicTag::read: the tag at pos, its length and the position after it.
\* "Unknown" is Error::UnknownTag (position restored); "Panic" is an index
\* out of the bounds of the backing.
TagRead(b, pos) ==
    IF pos >= Len(b) THEN [kind |-> "Panic", length |-> 0, next |-> pos]
    ELSE
    LET tag == b[pos + 1]
        kind == KindOf(tag)
        extra_bits == tag % 8
        len_bytes == (tag \div 8) % 4
    IN  IF kind = "Unknown" THEN [kind |-> "Unknown", length |-> 0, next |-> pos]
        ELSE IF kind = "End" THEN [kind |-> "End", length |-> 0, next |-> pos + 1]
        ELSE IF len_bytes = 0 THEN [kind |-> kind, length |-> extra_bits, next |-> pos + 1]
        ELSE IF pos + 1 + len_bytes > Len(b) THEN [kind |-> "Panic", length |-> 0, next |-> pos]
        ELSE [kind |-> kind,
              length |-> extra_bits * Pow256(len_bytes) + BeValue(b, pos + 1, len_bytes),
              next |-> pos + 1 + len_bytes]

\* MagicTag::written_length
WrittenLength(kind, length) ==
    IF kind = "End" THEN 1
    ELSE 1 + DivCeil(SaturatingSub(NeededBits(length), 3), 8)

\* MagicTag::write_buffer: the bytes of the tag (<<>> stands for the panic
\* "length is too large to store item")
TagBytes(kind, length) ==
    IF kind = "End" THEN <<END>>
    ELSE IF length = 0 THEN <<Selector(kind)>>
    ELSE
    LET needed_bits == NeededBits(length)
        needed_bytes == DivCeil(SaturatingSub(needed_bits, 3), 8)
        bytes == ToBeBytes(length)
        tag_extra_bytes == needed_bytes * 8
        lz_bytes == (64 - needed_bits) \div 8
        packed == needed_bits % 8 <= 3 /\ needed_bits % 8 > 0
        tag_byte_idx == IF packed THEN lz_bytes ELSE lz_bytes - 1
        first == IF packed THEN bytes[tag_byte_idx] + Selector(kind) + tag_extra_bytes
                 ELSE Selector(kind) + tag_extra_bytes
    IN  IF needed_bytes > 3 THEN <<>>
        ELSE [i \in 1..(8 - tag_byte_idx) |->
                 IF i = 1 THEN first ELSE bytes[tag_byte_idx + i - 1]]

\* MagicTag::write_exact: the bytes it writes at the position (<<>> stands for
\* one of its panics)
TagBytesExact(kind, len, tag_len) ==
    LET needed_bits == NeededBits(len)
        needed_bytes == DivCeil(SaturatingSub(needed_bits, 3), 8)
        populated_bytes == DivCeil(needed_bits, 8)
        b == ToBeBytes(len)
    IN  IF tag_len > 4 \/ kind = "End" \/ 1 + needed_bytes > tag_len THEN <<>>
        ELSE IF WrittenLength(kind, len) = tag_len THEN TagBytes(kind, len)
        ELSE IF populated_bytes > 3 THEN <<>>
        ELSE [i \in 1..(1 + populated_bytes) |->
                 IF i = 1 THEN Selector(kind) + populated_bytes * 8
                 ELSE b[7 - populated_bytes + i - 1]]

\* MagicTag::calc_tag_len: (tag_len, payload_len) framing total_len bytes
RECURSIVE CalcTagLenFrom(_, _)
CalcTagLenFrom(total_len, tag_len) ==
    IF tag_len > 4 \/ tag_len > total_len THEN [tag_len |-> 0, len |-> 0]
    ELSE IF WrittenLength("Writing", total_len - tag_len) <= tag_len
         THEN [tag_len |-> tag_len, len |-> total_len - tag_len]
         ELSE CalcTagLenFrom(total_len, tag_len + 1)

\* a loop that starts at two tag bytes
CalcTagLenFromTwo(total_len) ==
    IF total_len < 2 THEN [tag_len |-> 1, len |-> 0] ELSE CalcTagLenFrom(total_len, 2)

CalcTagLen(total_len) == CalcTagLenFrom(total_len, 1)


(***************************************************************************)
(* The store.                                                              *)
(***************************************************************************)
VARIABLES
    backing,        \* RawStore.backing: the mapped bytes (and the file image)
    end,            \* RawStore.end
    gaps,           \* RawStore.gaps: sequence of [at, length, tag_len]
    header_length,  \* RawStore.header_length
    alive,          \* a RawStore value exists (FALSE after a failed open or a panic)
    pc,             \* position inside add: "idle" between operations
    cur,            \* locals of the add in progress
    check,          \* Checker.check: id -> bytes of every id issued and not given up
    dead,           \* ids given to a successful remove whose space no add has reused
    last,           \* the last call and its result
    count,          \* calls so far: [ops, adds, retains, crashes]
    db,             \* phobos Database: [open, held, fsts, fst_count]
    disk,           \* the directory of the Database: index, log, log_backup, FST files
    hist,           \* the calls made on the Database and what they were told
    lk,             \* int-multistore Lookup: the call in progress, the Idx its
                    \* caller holds for each key, the values given for each key
    ark             \* covenant Ark: the lock files, the process that holds the Ark,
                    \* its add calls, the object and staging files, the hash maps

vars == <<backing, end, gaps, header_length, alive, pc, cur, check, dead, last, count,
          db, disk, hist, lk, ark>>

\* the slab store's variables, and the others
store == <<backing, end, gaps, header_length, alive, pc, cur, check, dead, last, count>>
others == <<db, disk, hist, lk, ark>>

\* a gap whose length counts its tag bytes too
GapWithTag(at, length, tag_len) == [at |-> at, length |-> length + tag_len, tag_len |-> tag_len]

Gap(at, length, tag_len) == [at |-> at, length |-> length, tag_len |-> tag_len]
GapSize(g) == g.length + g.tag_len

\* Vec::swap_remove (1-based index)
SwapRemove(s, i) ==
    [j \in 1..(Len(s) - 1) |-> IF j = i THEN s[Len(s)] ELSE s[j]]

NoCur == [start |-> 0, position |-> 0, bytes |-> <<>>, expected |-> "End", old_gap |-> <<>>,
          dirty |-> {}, flushed |-> {}]
NoPre == [end |-> 0, gaps |-> <<>>, check |-> <<>>]

Result(op, id, data, ok, err) ==
    [op |-> op, id |-> id, data |-> data, ok |-> ok, err |-> err, seen |-> <<>>,
     position |-> 0, length |-> 0,
     pc |-> "idle", strat |-> "Error", ids |-> <<>>, pre |-> NoPre, flushed |-> {}]

Pre == [end |-> end, gaps |-> gaps, check |-> check]

\* RawStore::new on a zeroed anonymous backing: the header, then End
NewBacking(spec_magic) ==
    LET b0 == Zeros(CHUNK)
        b1 == BackingWrite(b0, 0, HEADER_MAGIC)
        b2 == BackingWrite(b1, Len(HEADER_MAGIC), HEADER_VERSION)
        \* varuint writes a length below 241 as one byte
        b3 == BackingWrite(b2, HEADER_LENGTH, <<Len(spec_magic)>>)
        b4 == BackingWrite(b3, HEADER_LENGTH + 1, spec_magic)
        hl == HEADER_LENGTH + 1 + Len(spec_magic)
    IN  [backing |-> BackingWrite(ResizeFor(b4, hl + 1), hl, <<END>>), header_length |-> hl]

InitStore ==
    /\ backing = NewBacking(SpecMagic).backing
    /\ header_length = NewBacking(SpecMagic).header_length
    /\ end = NewBacking(SpecMagic).header_length
    /\ gaps = <<>>
    /\ alive = TRUE
    /\ pc = "idle"
    /\ cur = NoCur
    /\ check = <<>>
    /\ dead = {}
    /\ last = Result("new", 0, <<>>, TRUE, "")
    /\ count = [ops |-> 0, adds |-> 0, retains |-> 0, crashes |-> 0]

(***************************************************************************)
(* RawStore::add, one action per backing write, flush and flip.            *)
(***************************************************************************)
\* satisfies_length
SatisfiesLength(new, old) == new = old \/ new + GAP_SLACK <= old

\* the gap add takes: the smallest of the first GAP_SCAN fitting gaps, the
\* earliest among equals; 0 when no gap fits
RECURSIVE FirstFitting(_, _, _, _)
FirstFitting(gs, required, i, n) ==
    IF i > Len(gs) \/ n = 0 THEN <<>>
    ELSE IF SatisfiesLength(required, GapSize(gs[i]))
         THEN <<i>> \o FirstFitting(gs, required, i + 1, n - 1)
         ELSE FirstFitting(gs, required, i + 1, n)

RECURSIVE MinByKey(_, _, _)
MinByKey(gs, idxs, best) ==
    IF idxs = <<>> THEN best
    ELSE MinByKey(gs, Tail(idxs),
                  IF best = 0 \/ GapSize(gs[Head(idxs)]) < GapSize(gs[best])
                  THEN Head(idxs) ELSE best)

\* the smallest of all the fitting gaps
ChooseAmongAll(gs, required) == MinByKey(gs, FirstFitting(gs, required, 1, Len(gs)), 0)

ChooseGap(gs, required) == MinByKey(gs, FirstFitting(gs, required, 1, GAP_SCAN), 0)

\* ids of `d` lying inside [from, to)
Within(d, from, to) == {i \in d : i >= from /\ i < to}

\* an add that writes the Written tag at once
WrittenAtOnce(bytes) == TagBytes("Written", Len(bytes))

\* line 212: the tag add writes first
FirstTag(bytes) == TagBytes("Writing", Len(bytes))

\* the offsets of `length` bytes from `offset`
Offsets(offset, length) == offset .. (offset + length - 1)

\* a flush that reaches no byte
FlushNone(offset, length) == {}

\* MmapMut::flush_range(offset, len): the offsets msync is asked to write out
FlushRange(offset, length) == Offsets(offset, length)

\* lines 181-212: pick the place, check the tag found there, write the
\* Writing tag
AddBegin(bytes) ==
    /\ alive /\ pc = "idle" /\ count.ops < MaxOps /\ count.adds < MaxAdds
    /\ LET required == WrittenLength("Writing", Len(bytes)) + Len(bytes)
           idx == ChooseGap(gaps, required)
           start == IF idx = 0 THEN end ELSE gaps[idx].at
           expected == IF idx = 0
                       THEN [kind |-> "End", length |-> 0]
                       ELSE [kind |-> "Deleted", length |-> gaps[idx].length]
           old_gap == IF idx = 0 \/ required = GapSize(gaps[idx]) THEN <<>> ELSE <<gaps[idx]>>
           existing == TagRead(backing, start)
           tag == FirstTag(bytes)
       IN  /\ count' = [count EXCEPT !.ops = @ + 1, !.adds = @ + 1]
           /\ gaps' = IF idx = 0 THEN gaps ELSE SwapRemove(gaps, idx)
           /\ IF existing.kind = expected.kind /\ existing.length = expected.length
              THEN /\ backing' = BackingWrite(backing, start, tag)
                   /\ cur' = [start |-> start, position |-> start + Len(tag), bytes |-> bytes,
                              expected |-> expected.kind, old_gap |-> old_gap,
                              dirty |-> Offsets(start, Len(tag)), flushed |-> {}]
                   /\ pc' = "tag"
                   /\ dead' = IF idx = 0 THEN dead
                              ELSE dead \ Within(dead, start, start + GapSize(gaps[idx]))
                   /\ UNCHANGED <<alive, last>>
              ELSE \* assert_eq!(existing_tag, expected_tag) fails
                   /\ alive' = FALSE
                   /\ last' = Result("add", start, bytes, FALSE, "Panic")
                   /\ UNCHANGED <<backing, cur, pc, dead>>
    /\ UNCHANGED <<end, header_length, check>>
    /\ UNCHANGED others

\* line 213: the payload
AddPayload ==
    /\ alive /\ pc = "tag"
    /\ backing' = BackingWrite(backing, cur.position, cur.bytes)
    /\ cur' = [cur EXCEPT !.position = cur.position + Len(cur.bytes),
                          !.dirty = @ \cup Offsets(cur.position, Len(cur.bytes))]
    /\ pc' = "payload"
    /\ UNCHANGED <<end, gaps, header_length, alive, check, dead, last, count>>
    /\ UNCHANGED others

\* lines 215-231: the Deleted record over what is left of a split gap
AddRemainder ==
    /\ alive /\ pc = "payload" /\ cur.old_gap # <<>>
    /\ LET old == cur.old_gap[1]
           total == old.tag_len + old.length
           used == cur.position - cur.start
           remaining == total - used
           t == CalcTagLen(remaining)
           tag == TagBytesExact("Deleted", t.len, t.tag_len)
           new_at == cur.position
       IN  IF tag = <<>> \/ new_at + Len(tag) + t.len # cur.start + total
           THEN \* a panic of calc_tag_len or write_exact, or assert_eq!(position, start + total)
                /\ alive' = FALSE
                /\ last' = Result("add", cur.start, cur.bytes, FALSE, "Panic")
                /\ UNCHANGED <<backing, gaps, cur, pc>>
           ELSE /\ backing' = BackingWrite(backing, new_at, tag)
                /\ gaps' = Append(gaps, Gap(new_at, t.len, t.tag_len))
                /\ cur' = [cur EXCEPT !.position = new_at + Len(tag) + t.len,
                                      !.dirty = @ \cup Offsets(new_at, Len(tag))]
                /\ pc' = "rest"
                /\ UNCHANGED <<alive, last>>
    /\ UNCHANGED <<end, header_length, check, dead, count>>
    /\ UNCHANGED others

\* an add that moves end and does not write the End tag again
AddEndSkipped ==
    /\ alive /\ pc = "payload" /\ cur.old_gap = <<>> /\ cur.expected = "End"
    /\ end' = cur.position
    /\ backing' = ResizeFor(backing, cur.position + 1)
    /\ cur' = [cur EXCEPT !.position = cur.position + 1]
    /\ pc' = "endtag"
    /\ UNCHANGED <<gaps, header_length, alive, check, dead, last, count>>
    /\ UNCHANGED others

\* lines 233-236: the new End tag after a record appended at end
AddEnd ==
    /\ alive /\ pc = "payload" /\ cur.old_gap = <<>> /\ cur.expected = "End"
    /\ end' = cur.position
    /\ backing' = BackingWrite(ResizeFor(backing, cur.position + 1), cur.position, <<END>>)
    /\ cur' = [cur EXCEPT !.position = cur.position + 1, !.dirty = @ \cup {cur.position}]
    /\ pc' = "endtag"
    /\ UNCHANGED <<gaps, header_length, alive, check, dead, last, count>>
    /\ UNCHANGED others

\* lines 237-238: `let end = position; flush_range(start, end)`, the second
\* argument being the length of the range
AddFlush ==
    /\ alive
    /\ \/ pc \in {"rest", "endtag"}
       \/ pc = "payload" /\ cur.old_gap = <<>> /\ cur.expected # "End"
    /\ pc' = "flushed"
    /\ cur' = [cur EXCEPT !.flushed = FlushRange(cur.start, cur.position)]
    /\ UNCHANGED <<backing, end, gaps, header_length, alive, check, dead, last, count>>
    /\ UNCHANGED others

\* line 238: flush_range returns an error and add returns it; what add wrote
\* stays, the record with its Writing tag
AddFail ==
    /\ alive
    /\ \/ pc \in {"rest", "endtag"}
       \/ pc = "payload" /\ cur.old_gap = <<>> /\ cur.expected # "End"
    /\ pc' = "idle"
    /\ last' = Result("add", cur.start, cur.bytes, FALSE, "Flush")
    /\ cur' = NoCur
    /\ UNCHANGED <<backing, end, gaps, header_length, alive, check, dead, count>>
    /\ UNCHANGED others

\* a flip that leaves the tag byte as it is
FlipByteKept(byte) == byte

\* line 240: backing[start] ^= WRITING ^ WRITTEN
FlipByte(byte) == IF (byte \div 32) % 2 = 1 THEN byte - 32 ELSE byte + 32

AddFlip ==
    /\ alive /\ pc = "flushed"
    /\ backing' = [backing EXCEPT ![cur.start + 1] = FlipByte(@)]
    /\ cur' = [cur EXCEPT !.dirty = @ \cup {cur.start}, !.flushed = @ \ {cur.start}]
    /\ pc' = "flipped"
    /\ UNCHANGED <<end, gaps, header_length, alive, check, dead, last, count>>
    /\ UNCHANGED others

\* lines 241-243: flush_range(start, 1) of the tag byte; the id is returned
\* (Checker::execute records it with the bytes)
AddReturn ==
    /\ alive /\ pc = "flipped"
    /\ pc' = "idle"
    /\ check' = [i \in DOMAIN check \cup {cur.start} |->
                    IF i = cur.start THEN cur.bytes ELSE check[i]]
    /\ last' = [Result("add", cur.start, cur.bytes, TRUE, "")
                   EXCEPT !.flushed = FlushRange(cur.start, 1)]
    /\ cur' = NoCur
    /\ UNCHANGED <<backing, end, gaps, header_length, alive, dead, count>>
    /\ UNCHANGED others

Add == (\E bytes \in Payloads : AddBegin(bytes)) \/ AddPayload \/ AddRemainder
       \/ AddEnd \/ AddFlush \/ AddFlip \/ AddReturn


(***************************************************************************)
(* RawStore::get, replace, remove and erase.                               *)
(***************************************************************************)
Outcome(ok, err, data) == [ok |-> ok, err |-> err, data |-> data]

\* RawStore::get: what the callback is handed, or the error
Get(b, at) ==
    LET tag == TagRead(b, at)
    IN  IF tag.kind = "Panic" THEN Outcome(FALSE, "Panic", <<>>)
        ELSE IF tag.kind = "Unknown" THEN Outcome(FALSE, "UnknownTag", <<>>)
        ELSE IF tag.kind = "Writing" THEN Outcome(FALSE, "EntryCorrupt", <<>>)
        ELSE IF tag.kind = "Written"
             THEN IF tag.next + tag.length > Len(b) THEN Outcome(FALSE, "Panic", <<>>)
                  ELSE Outcome(TRUE, "", Slice(b, tag.next, tag.next + tag.length))
        ELSE Outcome(FALSE, "IncorrectTag", <<>>)

\* erase, lines 334-342: the gaps that end where the record starts
Befores(gs, at) == {i \in 1..Len(gs) : gs[i].at + gs[i].length + gs[i].tag_len = at}

\* an erase that never looks for a gap after the record
AftersNone(gs, at, stop) == {}

\* erase, lines 334-342: the gaps that start where the record stops
Afters(gs, at, stop) ==
    {i \in 1..Len(gs) : gs[i].at + gs[i].length + gs[i].tag_len # at /\ stop = gs[i].at}

\* an erase that leaves the tag byte as it is
MarkDeletedKept(byte) == byte

\* erase, line 387: the tag byte of a record deleted in place
MarkDeleted(byte) == DELETED + (byte % 32)

\* RawStore::erase: the backing and the gap list after erasing the record of
\* tag_len + length bytes at `at`; position is where the scan of retain goes on
Erase(b, gs, at, tag_len, length) ==
    LET befores == Befores(gs, at)
        afters == Afters(gs, at, at + tag_len + length)
        bi == CHOOSE i \in befores : TRUE
        ai == CHOOSE i \in afters : TRUE
        Panicked == [backing |-> b, gaps |-> gs, position |-> at, panic |-> TRUE]
    IN  IF Cardinality(befores) > 1 \/ Cardinality(afters) > 1 THEN Panicked
        ELSE IF befores = {} /\ afters = {}
        THEN LET stop == at + tag_len + length
                 b1 == [b EXCEPT ![at + 1] = MarkDeleted(@)]
             IN  [backing |-> FillZero(b1, at + tag_len, stop),
                  gaps |-> Append(gs, Gap(at, length, tag_len)),
                  position |-> stop, panic |-> FALSE]
        ELSE
        LET start == IF befores # {} THEN gs[bi].at ELSE at
            stop == IF afters # {} THEN gs[ai].at + gs[ai].tag_len + gs[ai].length
                    ELSE at + tag_len + length
            rest == IF befores # {} /\ afters # {}
                    THEN IF bi < ai THEN SwapRemove(SwapRemove(gs, ai), bi)
                         ELSE SwapRemove(SwapRemove(gs, bi), ai)
                    ELSE IF befores # {} THEN SwapRemove(gs, bi)
                    ELSE SwapRemove(gs, ai)
            t == CalcTagLen(stop - start)
            tag == TagBytesExact("Deleted", t.len, t.tag_len)
        IN  IF start >= stop \/ tag = <<>> \/ start + Len(tag) + t.len # stop THEN Panicked
            ELSE [backing |-> FillZero(BackingWrite(b, start, tag), start + Len(tag), stop),
                  gaps |-> Append(rest, Gap(start, t.len, t.tag_len)),
                  position |-> stop, panic |-> FALSE]

\* RawStore::remove, lines 311-327: the error it returns, "" when it goes on
\* to erase the record
RemoveRefusal(b, at) ==
    LET tag == TagRead(b, at)
    IN  IF tag.kind \in {"Panic", "End"} THEN "Panic"
        ELSE IF tag.kind = "Unknown" THEN "UnknownTag"
        ELSE IF tag.kind = "Writing" THEN "EntryCorrupt"
        ELSE IF tag.kind = "Deleted" THEN "AlreadyDeleted"
        ELSE IF tag.next + tag.length > Len(b) THEN "Panic"
        ELSE ""

\* RawStore::remove
Remove(at) ==
    /\ alive /\ pc = "idle" /\ count.ops < MaxOps
    /\ LET tag == TagRead(backing, at)
           e == Erase(backing, gaps, at, tag.next - at, tag.length)
           Fail(err) == /\ last' = [Result("remove", at, <<>>, FALSE, err) EXCEPT !.pre = Pre]
                        /\ alive' = (err # "Panic")
                        /\ UNCHANGED <<backing, gaps, check, dead, count>>
       IN  IF RemoveRefusal(backing, at) # "" THEN Fail(RemoveRefusal(backing, at))
           ELSE IF e.panic THEN Fail("Panic")
           ELSE /\ backing' = e.backing
                /\ gaps' = e.gaps
                /\ check' = [i \in DOMAIN check \ {at} |-> check[i]]
                /\ dead' = dead \cup {at}
                /\ last' = [Result("remove", at,
                                   Slice(backing, tag.next, tag.next + tag.length), TRUE, "")
                            EXCEPT !.pre = Pre]
                /\ count' = [count EXCEPT !.ops = @ + 1]
                /\ UNCHANGED alive
    /\ UNCHANGED <<end, header_length, pc, cur>>
    /\ UNCHANGED others

\* a replace that takes a payload of any length
ReplaceRefusalLoose(b, at, with) ==
    LET tag == TagRead(b, at)
    IN  IF tag.kind = "Panic" THEN "Panic"
        ELSE IF tag.kind = "Unknown" THEN "UnknownTag"
        ELSE IF tag.kind = "Writing" THEN "EntryCorrupt"
        ELSE IF tag.kind = "Deleted" THEN "CannotReplaceDeleted"
        ELSE IF tag.kind = "End" THEN "IncorrectTag"
        ELSE IF tag.next + Len(with) > Len(b) THEN "Panic"
        ELSE ""

\* RawStore::replace, lines 251-276: the error it returns, "" when it goes on
\* to overwrite the payload
ReplaceRefusal(b, at, with) ==
    LET tag == TagRead(b, at)
    IN  IF tag.kind = "Panic" THEN "Panic"
        ELSE IF tag.kind = "Unknown" THEN "UnknownTag"
        ELSE IF tag.kind = "Writing" THEN "EntryCorrupt"
        ELSE IF tag.kind = "Deleted" THEN "CannotReplaceDeleted"
        ELSE IF tag.kind = "End" THEN "IncorrectTag"
        ELSE IF tag.length # Len(with) THEN "MismatchedLengths"
        ELSE IF tag.next + Len(with) > Len(b) THEN "Panic"
        ELSE ""

\* RawStore::replace; last.seen is the view of the old data given to f
Replace(at, with) ==
    /\ alive /\ pc = "idle" /\ count.ops < MaxOps
    /\ LET tag == TagRead(backing, at)
           err == ReplaceRefusal(backing, at, with)
       IN  IF err # ""
           THEN /\ last' = [Result("replace", at, with, FALSE, err) EXCEPT !.pre = Pre]
                /\ alive' = (err # "Panic")
                /\ UNCHANGED <<backing, check, count>>
           ELSE /\ backing' = CopyInto(backing, tag.next, with)
                /\ check' = [i \in DOMAIN check |-> IF i = at THEN with ELSE check[i]]
                /\ last' = [Result("replace", at, with, TRUE, "")
                            EXCEPT !.pre = Pre,
                                   !.seen = Slice(backing, tag.next, tag.next + Len(with))]
                /\ count' = [count EXCEPT !.ops = @ + 1]
                /\ UNCHANGED alive
    /\ UNCHANGED <<end, gaps, header_length, pc, cur, dead>>
    /\ UNCHANGED others

\* RawStore::replace when flush_range (line 265) returns an error: the
\* payload is already overwritten and replace returns the error
ReplaceFlushFail(at, with) ==
    /\ alive /\ pc = "idle" /\ count.ops < MaxOps
    /\ ReplaceRefusal(backing, at, with) = ""
    /\ LET tag == TagRead(backing, at)
       IN  /\ backing' = CopyInto(backing, tag.next, with)
           /\ last' = [Result("replace", at, with, FALSE, "Flush")
                       EXCEPT !.pre = Pre,
                              !.seen = Slice(backing, tag.next, tag.next + Len(with))]
    /\ count' = [count EXCEPT !.ops = @ + 1]
    /\ UNCHANGED <<end, gaps, header_length, alive, pc, cur, check, dead>>
    /\ UNCHANGED others


(***************************************************************************)
(* RawStore::retain.  An input item is an id (ControlFlow::Continue) or 0  *)
(* (ControlFlow::Break; an Id is never zero).                              *)
(***************************************************************************)
BREAK == 0

\* a scan that stops before the record of id
ScanOnBefore(position, id) == position < id

\* retain, line 442: the scan goes on up to and including the record of id
ScanOn(position, id) == position <= id

\* a scan that erases nothing on its way to id
RetainScanKeeps(b, gs, id, position) ==
    [backing |-> b, gaps |-> gs, position |-> IF position <= id THEN id + 1 ELSE position,
     err |-> ""]

\* the inner `while position <= id` loop
RECURSIVE RetainScan(_, _, _, _)
RetainScan(b, gs, id, position) ==
    IF ~ScanOn(position, id) THEN [backing |-> b, gaps |-> gs, position |-> position, err |-> ""]
    ELSE
    LET here == position
        tag == TagRead(b, here)
        tag_len == tag.next - here
        Stop(err) == [backing |-> b, gaps |-> gs, position |-> here, err |-> err]
        e == Erase(b, gs, here, tag_len, tag.length)
    IN  IF tag.kind = "Panic" THEN Stop("Panic")
        ELSE IF tag.kind = "Unknown" THEN Stop("UnknownTag")
        ELSE IF tag.kind = "End" THEN Stop("IncorrectTag")
        ELSE IF tag.kind = "Deleted" THEN RetainScan(b, gs, id, tag.next + tag.length)
        ELSE IF id = here
             THEN IF tag.kind = "Writing" THEN Stop("RetainPartial")
                  ELSE RetainScan(b, gs, id, tag.next + tag.length)
        ELSE IF e.panic THEN Stop("Panic")
        ELSE RetainScan(e.backing, e.gaps, id, e.position)

\* the `for known in known_ids` loop
RECURSIVE RetainLoop(_, _, _, _, _, _)
RetainLoop(b, gs, known_ids, k, position, previous) ==
    IF k > Len(known_ids) THEN [backing |-> b, gaps |-> gs, err |-> ""]
    ELSE IF known_ids[k] = BREAK THEN [backing |-> b, gaps |-> gs, err |-> "Break"]
    ELSE IF previous # BREAK /\ previous >= known_ids[k]
         THEN [backing |-> b, gaps |-> gs, err |-> "UnsortedInputs"]
    ELSE LET r == RetainScan(b, gs, known_ids[k], position)
         IN  IF r.err # "" THEN [backing |-> r.backing, gaps |-> r.gaps, err |-> r.err]
             ELSE RetainLoop(r.backing, r.gaps, known_ids, k + 1, r.position, known_ids[k])

\* the ids of a set in increasing order (Checker::execute sorts and dedups)
Ascending(S) ==
    [i \in 1..Cardinality(S) |-> CHOOSE x \in S : Cardinality({y \in S : y < x}) = i - 1]

Range(q) == {q[i] : i \in DOMAIN q}

Retain(known_ids) ==
    /\ alive /\ pc = "idle" /\ count.ops < MaxOps /\ count.retains < MaxRetains
    /\ count' = [count EXCEPT !.ops = @ + 1, !.retains = @ + 1]
    /\ LET r == RetainLoop(backing, <<>>, known_ids, 1, header_length, BREAK)
       IN  /\ backing' = r.backing
           /\ gaps' = r.gaps
           /\ alive' = (r.err # "Panic")
           /\ last' = [Result("retain", 0, <<>>, r.err = "", r.err)
                       EXCEPT !.ids = known_ids, !.pre = Pre]
           \* Checker::execute forgets every name it did not pass on
           /\ check' = IF r.err = ""
                       THEN [i \in DOMAIN check \cap Range(known_ids) |-> check[i]]
                       ELSE check
    /\ UNCHANGED <<end, header_length, pc, cur, dead>>
    /\ UNCHANGED others

(***************************************************************************)
(* RawStore::open, close and a crash.                                      *)
(***************************************************************************)
Opened(ok, err, b, e, gs, hl) ==
    [ok |-> ok, err |-> err, backing |-> b, end |-> e, gaps |-> gs, header_length |-> hl,
     position |-> 0, length |-> 0]

\* an open that repairs whatever the strategy
RecoversAlways(strat) == TRUE

\* `match options.recovery_strategy`: Rollback repairs, Error does not
Recovers(strat) == strat = "Rollback"

\* the record scan of open: `while pos < backing.len()`
RECURSIVE OpenScan(_, _, _, _, _)
OpenScan(b, pos, gs, strat, hl) ==
    IF pos >= Len(b)
    THEN \* no End tag was met
         IF ~Recovers(strat) THEN Opened(FALSE, "NoEnd", b, 0, gs, hl)
         ELSE Opened(TRUE, "", BackingWrite(ResizeFor(b, pos + 1), pos, <<END>>), pos, gs, hl)
    ELSE
    LET here == pos
        tag == TagRead(b, here)
        tag_len == tag.next - here
        deleted == TagBytesExact("Deleted", tag.length, tag_len)
        after == tag.next + tag.length
    IN  IF tag.kind = "Panic" THEN Opened(FALSE, "Panic", b, 0, gs, hl)
        ELSE IF tag.kind = "Unknown" THEN Opened(FALSE, "UnknownTag", b, 0, gs, hl)
        ELSE IF tag.kind = "End"
             THEN IF \E i \in (tag.next + 1)..Len(b) : b[i] # 0
                  THEN Opened(FALSE, "DataAfterEnd", b, 0, gs, hl)
                  ELSE Opened(TRUE, "", b, here, gs, hl)
        ELSE IF tag.kind = "Writing"
             THEN IF ~Recovers(strat)
                  THEN [Opened(FALSE, "PartialWrite", b, 0, gs, hl)
                        EXCEPT !.position = here, !.length = tag.length]
                  ELSE IF deleted = <<>> \/ after > Len(b)
                       THEN \* write_exact panics, or the fill is out of bounds
                            Opened(FALSE, "Panic",
                                   IF deleted = <<>> THEN b ELSE BackingWrite(b, here, deleted),
                                   0, gs, hl)
                       ELSE OpenScan(FillZero(BackingWrite(b, here, deleted), tag.next, after),
                                     after, Append(gs, Gap(here, tag.length, tag_len)), strat, hl)
        ELSE IF tag.kind = "Written" THEN OpenScan(b, after, gs, strat, hl)
        ELSE OpenScan(b, after, Append(gs, Gap(here, tag.length, tag_len)), strat, hl)

\* an open that takes the spec magic of the file, whatever the caller expects
OpenAnyMagic(b, spec_magic, strat) ==
    OpenScan(b, HEADER_LENGTH + 1 + b[HEADER_LENGTH + 1], <<>>, strat,
             HEADER_LENGTH + 1 + b[HEADER_LENGTH + 1])

\* RawStore::open: the header checks, then the scan
Open(b, spec_magic, strat) ==
    LET h_len == HEADER_LENGTH + 1 + Len(spec_magic)
        Refuse(err) == Opened(FALSE, err, b, 0, <<>>, h_len)
        hpos == HEADER_LENGTH + 1
        sl == b[HEADER_LENGTH + 1]
    IN  IF Len(b) < h_len THEN Refuse("TooSmall")
        ELSE IF Slice(b, 0, Len(HEADER_MAGIC)) # HEADER_MAGIC THEN Refuse("Magic")
        ELSE IF Slice(b, Len(HEADER_MAGIC), HEADER_LENGTH) # HEADER_VERSION
             THEN Refuse("UnknownVersion")
        ELSE IF sl # Len(spec_magic) THEN Refuse("SpecMagicLen")
        ELSE IF Slice(b, hpos, hpos + sl) # spec_magic THEN Refuse("SpecMagic")
        ELSE OpenScan(b, h_len, <<>>, strat, h_len)

\* an open that comes back with an empty gap list
InstallNoGaps(o) ==
    /\ backing' = o.backing
    /\ alive' = o.ok
    /\ end' = IF o.ok THEN o.end ELSE end
    /\ gaps' = IF o.ok THEN <<>> ELSE gaps
    /\ header_length' = IF o.ok THEN o.header_length ELSE header_length

\* lines 244-249 of open.rs: the store open returns
Install(o) ==
    /\ backing' = o.backing
    /\ alive' = o.ok
    /\ end' = IF o.ok THEN o.end ELSE end
    /\ gaps' = IF o.ok THEN o.gaps ELSE gaps
    /\ header_length' = IF o.ok THEN o.header_length ELSE header_length

\* Checker::reopen: close() and open() with the same spec magic
Reopen ==
    /\ alive /\ pc = "idle" /\ count.ops < MaxOps
    /\ count' = [count EXCEPT !.ops = @ + 1]
    /\ LET o == Open(backing, SpecMagic, "Error")
       IN  /\ Install(o)
           /\ last' = [Result("reopen", 0, <<>>, o.ok, o.err)
                       EXCEPT !.pre = Pre, !.position = o.position, !.length = o.length]
    /\ UNCHANGED <<pc, cur, check, dead>>
    /\ UNCHANGED others

Strategies == {"Error", "Rollback"}

\* the process dies inside add (or between two calls) and the file is opened
\* again with the given recovery strategy
Crash(strat) ==
    /\ alive /\ count.ops < MaxOps /\ count.crashes < MaxCrashes
    /\ count' = [count EXCEPT !.ops = @ + 1, !.crashes = @ + 1]
    /\ LET o == Open(backing, SpecMagic, strat)
       IN  /\ Install(o)
           /\ last' = IF pc = "idle" /\ last.op = "add" /\ last.ok
                       THEN \* right after an add that returned last.id
                            [Result("crash", last.id, last.data, o.ok, o.err)
                             EXCEPT !.pc = "done", !.strat = strat, !.pre = Pre,
                                    !.position = o.position, !.length = o.length]
                       ELSE [Result("crash", cur.start, cur.bytes, o.ok, o.err)
                             EXCEPT !.pc = pc, !.strat = strat, !.pre = Pre,
                                    !.position = o.position, !.length = o.length]
    /\ pc' = "idle"
    /\ cur' = NoCur
    /\ UNCHANGED <<check, dead>>
    /\ UNCHANGED others

\* the records met by reading the slab tag by tag from pos; stop is the
\* offset of the End tag, -1 when the reading does not get to one; why tells
\* how the reading ended: on the End tag, on a byte that is no tag, on a tag
\* cut by the end of the backing, or past the last byte
RECURSIVE ScanRecords(_, _)
ScanRecords(b, pos) ==
    IF pos >= Len(b) THEN [recs |-> <<>>, stop |-> -1, why |-> "NoMore"]
    ELSE
    LET tag == TagRead(b, pos)
        rest == ScanRecords(b, tag.next + tag.length)
    IN  IF tag.kind = "Panic" THEN [recs |-> <<>>, stop |-> -1, why |-> "Panic"]
        ELSE IF tag.kind = "Unknown" THEN [recs |-> <<>>, stop |-> -1, why |-> "Unknown"]
        ELSE IF tag.kind = "End" THEN [recs |-> <<>>, stop |-> pos, why |-> "End"]
        ELSE [recs |-> <<[at |-> pos, kind |-> tag.kind, length |-> tag.length,
                          tag_len |-> tag.next - pos]>> \o rest.recs,
              stop |-> rest.stop, why |-> rest.why]

\* the lengths a copy of the file is cut to: at the start of a record, at
\* the End tag, right after it, or not at all
Cuts ==
    {ScanRecords(backing, header_length).recs[i].at :
        i \in DOMAIN ScanRecords(backing, header_length).recs}
        \cup {end, end + 1, Len(backing)}

\* Backing::new_from_buffer on the first n bytes of the file, the process
\* having stopped at any point, then open with the given recovery strategy
OpenCut(n, strat) ==
    /\ alive /\ count.ops < MaxOps /\ count.crashes < MaxCrashes
    /\ count' = [count EXCEPT !.ops = @ + 1, !.crashes = @ + 1]
    /\ LET o == Open(Slice(backing, 0, n), SpecMagic, strat)
       IN  /\ Install(o)
           /\ last' = [Result("open", n, <<>>, o.ok, o.err)
                       EXCEPT !.pc = pc, !.strat = strat, !.pre = Pre,
                              !.position = o.position, !.length = o.length]
    /\ pc' = "idle"
    /\ cur' = NoCur
    /\ UNCHANGED <<check, dead>>
    /\ UNCHANGED others

\* spec magics a caller may expect: the store's own, one of the same length,
\* a prefix, none, and a longer one
OtherMagics == {<<99, 108>>, <<99>>, <<>>, <<99, 107, 0>>}

\* close(), then OpenStoreOptions::exact_spec_magic(expected).open(backing)
OpenWith(expected) ==
    /\ alive /\ pc = "idle" /\ count.ops < MaxOps
    /\ count' = [count EXCEPT !.ops = @ + 1]
    /\ LET o == Open(backing, expected, "Error")
       IN  /\ Install(o)
           /\ last' = [Result("open_with", 0, expected, o.ok, o.err) EXCEPT !.pre = Pre]
    /\ UNCHANGED <<pc, cur, check, dead>>
    /\ UNCHANGED others

(***************************************************************************)
(* phobos: Database, a map from byte keys to u64 values kept in a          *)
(* memtable (held), a write-ahead log and immutable FST files named by an  *)
(* index file.  A key k of the model stands for the one-byte key <<k>>.    *)
(* An FST is the sequence of <<key, value>> pairs given to its builder;    *)
(* an FST a Database holds is the map of the file as it was when it was    *)
(* opened, whatever happens to the name later (rename, unlink).            *)
(***************************************************************************)
\* DatabaseOptions::fanout and write_threshold, at the least values they accept
fanout == 2
memory_threshold == 16

\* Option<u64>
None == <<>>
Some(v) == <<v>>

NoMap == <<>>
Put(m, k, v) == [x \in DOMAIN m \cup {k} |-> IF x = k THEN v ELSE m[x]]

\* varuint, the encoding the log items and the multi-value records use:
\* up to 240 the value is its own byte; up to 2031 two bytes, the first from
\* 241 to 247; up to 67567 three bytes, the first 248. MaxVarint is the
\* greatest value the model encodes.
MaxVarint == 67567

\* VarintSizeHint::varint_size
VarintSize(n) == IF n <= 240 THEN 1 ELSE IF n <= 2031 THEN 2 ELSE 3

\* WriteVarint::write_varint
VarintWrite(n) ==
    IF n <= 240 THEN <<n>>
    ELSE IF n <= 2031 THEN <<241 + (n - 240) \div 256, (n - 240) % 256>>
    ELSE <<248, (n - 2032) \div 256, (n - 2032) % 256>>

\* ReadVarint::read_varint at pos of data: the value and the position after
\* it, or an error when the bytes run out (a first byte above 248 starts a
\* value beyond MaxVarint, of at least four bytes)
VarintRead(data, pos) ==
    LET byte(i) == data[pos + i]
        have(n) == pos + n <= Len(data)
        Bad == [ok |-> FALSE, value |-> 0, next |-> pos]
    IN  IF ~have(1) THEN Bad
        ELSE IF byte(1) <= 240 THEN [ok |-> TRUE, value |-> byte(1), next |-> pos + 1]
        ELSE IF ~have(2) THEN Bad
        ELSE IF byte(1) <= 247
             THEN [ok |-> TRUE, value |-> 240 + 256 * (byte(1) - 241) + byte(2),
                   next |-> pos + 2]
        ELSE IF ~have(3) THEN Bad
        ELSE IF byte(1) = 248
             THEN [ok |-> TRUE, value |-> 2032 + 256 * byte(2) + byte(3), next |-> pos + 3]
        ELSE Bad

\* LogItem::write: Insert is 0, the key's length, the key (one byte in the
\* model), the value; Flushed is 1
LogItemWrite(item) ==
    IF item.kind = "Insert"
    THEN <<0>> \o VarintWrite(1) \o <<item.key>> \o VarintWrite(item.value)
    ELSE <<1>>

Insert(key, value) == [kind |-> "Insert", key |-> key, value |-> value]
Flushed == [kind |-> "Flushed", key |-> 0, value |-> 0]

\* LogItem::read at pos of data: the item and the position after it, or an
\* error when the bytes run out or the first byte is neither 0 nor 1
LogItemRead(data, pos) ==
    LET Bad == [ok |-> FALSE, item |-> Flushed, next |-> pos]
    IN  IF pos + 1 > Len(data) THEN Bad
        ELSE IF data[pos + 1] = 1 THEN [ok |-> TRUE, item |-> Flushed, next |-> pos + 1]
        ELSE IF data[pos + 1] # 0 THEN Bad
        ELSE LET len == VarintRead(data, pos + 1)
             IN  IF ~len.ok \/ len.next + len.value > Len(data) THEN Bad
                 ELSE LET value == VarintRead(data, len.next + len.value)
                      IN  IF ~value.ok THEN Bad
                          ELSE [ok |-> TRUE,
                                item |-> Insert(IF len.value = 1 THEN data[len.next + 1]
                                                ELSE 0,
                                                value.value),
                                next |-> value.next]

\* extract of restore_log: the items read from the whole of data for as long
\* as the position is below end; ok is FALSE when a read failed
RECURSIVE Extract(_, _, _)
Extract(data, pos, log_end) ==
    IF pos >= log_end THEN [items |-> <<>>, ok |-> TRUE]
    ELSE LET r == LogItemRead(data, pos)
         IN  IF ~r.ok THEN [items |-> <<>>, ok |-> FALSE]
             ELSE LET rest == Extract(data, r.next, log_end)
                  IN  [items |-> <<r.item>> \o rest.items, ok |-> rest.ok]

\* `to_add`: the Insert items applied in order to a map
RECURSIVE Replay(_, _)
Replay(items, m) ==
    IF items = <<>> THEN m
    ELSE Replay(Tail(items),
                IF Head(items).kind = "Insert"
                THEN Put(m, Head(items).key, Head(items).value) ELSE m)

\* fst::Map::get
FstGet(fst, key) ==
    IF \E i \in DOMAIN fst : fst[i][1] = key
    THEN Some(fst[CHOOSE i \in DOMAIN fst : fst[i][1] = key][2])
    ELSE None

FstKeys(fst) == {fst[i][1] : i \in DOMAIN fst}

\* a pick of the first of the least ids
FirstMinById(q, S) ==
    CHOOSE i \in S : \A j \in S : q[j].id > q[i].id \/ (q[j].id = q[i].id /\ j >= i)

\* Iterator::max_by_key over the positions S of a sequence: the last of the
\* greatest
LastMaxById(q, S) ==
    CHOOSE i \in S : \A j \in S : q[j].id < q[i].id \/ (q[j].id = q[i].id /\ j <= i)

\* Database::get: the memtable, then the FST of the highest id holding the key
DbGet(d, key) ==
    IF key \in DOMAIN d.held THEN Some(d.held[key])
    ELSE LET found == {i \in DOMAIN d.fsts : FstGet(d.fsts[i].fst, key) # None}
         IN  IF found = {} THEN None
             ELSE FstGet(d.fsts[LastMaxById(d.fsts, found)].fst, key)

\* usize::ilog
RECURSIVE ILog(_, _)
ILog(n, base) == IF n < base THEN 0 ELSE 1 + ILog(n \div base, base)

\* Database::calculate_level
CalculateLevel(n) ==
    LET q == n \div memory_threshold
    IN  ILog(IF q < 1 THEN 1 ELSE q, fanout)

\* the paths a Database uses: the index, the log, the backup of the log and
\* the FST files by <<id, level>>
\* (made is no file: the FST each entry of the index was written for)
NewDisk == [index |-> <<>>, log |-> <<>>, log_backup |-> <<>>, has_backup |-> FALSE,
            fst |-> NoMap, made |-> <<>>]

Closed == [open |-> FALSE, held |-> NoMap, fsts |-> <<>>, fst_count |-> 0]

LevelFst(n, id, level, fst) == [count |-> n, id |-> id, level |-> level, fst |-> fst]
IndexFst(f) == [id |-> f.id, level |-> f.level, count |-> f.count]

\* the result of an operation: the Database and the directory it leaves,
\* and the directory as it was after each earlier write of the operation
Done(d, dsk, points, ok) == [db |-> d, disk |-> dsk, points |-> points, ok |-> ok]

\* the subsequence of q at the positions S
RECURSIVE Pick(_, _, _)
Pick(q, S, i) ==
    IF i > Len(q) THEN <<>>
    ELSE (IF i \in S THEN <<q[i]>> ELSE <<>>) \o Pick(q, S, i + 1)

RECURSIVE SumCounts(_)
SumCounts(q) == IF q = <<>> THEN 0 ELSE Head(q).count + SumCounts(Tail(q))

\* the drained memtable in descending key order
DescendingItems(held) ==
    LET ks == Ascending(DOMAIN held)
    IN  [i \in DOMAIN ks |-> <<ks[Len(ks) + 1 - i], held[ks[Len(ks) + 1 - i]]>>]

\* `items`: the drained memtable in the order the pops take it, ascending
SortedItems(held) ==
    LET ks == Ascending(DOMAIN held)
    IN  [i \in DOMAIN ks |-> <<ks[i], held[ks[i]]>>]

\* a union that takes the value of the first FST that holds the key
UnionStreamFirst(to_merge) ==
    LET keys == UNION {FstKeys(to_merge[i].fst) : i \in DOMAIN to_merge}
        ks == Ascending(keys)
        first(k) == CHOOSE i \in DOMAIN to_merge :
                        /\ FstGet(to_merge[i].fst, k) # None
                        /\ \A j \in 1..(i - 1) : FstGet(to_merge[j].fst, k) = None
    IN  [i \in DOMAIN ks |-> <<ks[i], FstGet(to_merge[first(ks[i])].fst, ks[i])[1]>>]

\* OpBuilder::union over to_merge with the pick of `max`: each key of the
\* FSTs once, ascending, with the value of the FST of greatest id
UnionStream(to_merge) ==
    LET keys == UNION {FstKeys(to_merge[i].fst) : i \in DOMAIN to_merge}
        ks == Ascending(keys)
        holders(k) == {i \in DOMAIN to_merge : FstGet(to_merge[i].fst, k) # None}
    IN  [i \in DOMAIN ks |->
            <<ks[i], FstGet(to_merge[LastMaxById(to_merge, holders(ks[i]))].fst, ks[i])[1]>>]

\* the builder and the callback of a merge: the pairs inserted, the pairs the
\* callback was called with, and the keys the callback returns an error for
\* (none for empty_callback)
Builder(fails) == [out |-> <<>>, ok |-> TRUE, called |-> <<>>, fails |-> fails]

\* the `add` closure: skip a key equal to the previous one, else the
\* callback, whose error is returned, and builder.insert, which refuses a key
\* that is not above the last one
BuilderAdd(b, pair) ==
    IF ~b.ok THEN b
    ELSE IF b.called # <<>> /\ b.called[Len(b.called)][1] = pair[1] THEN b
    ELSE IF pair[1] \in b.fails THEN [b EXCEPT !.ok = FALSE, !.called = Append(@, pair)]
    ELSE IF b.out # <<>> /\ b.out[Len(b.out)][1] > pair[1]
         THEN [b EXCEPT !.ok = FALSE, !.called = Append(@, pair)]
    ELSE [b EXCEPT !.out = Append(@, pair), !.called = Append(@, pair)]

\* a turn that takes the stream's pair for a key the memtable holds too
WalkStepStream(w) ==
    IF w.stream = <<>>
    THEN [w EXCEPT !.items = Tail(@), !.b = BuilderAdd(@, Head(w.items))]
    ELSE IF w.items # <<>> /\ Head(w.items)[1] < Head(w.stream)[1]
         THEN [w EXCEPT !.items = Tail(@), !.b = BuilderAdd(@, Head(w.items))]
    ELSE IF w.items # <<>> /\ Head(w.items)[1] = Head(w.stream)[1]
         THEN [w EXCEPT !.stream = Tail(@), !.items = Tail(@),
                        !.b = BuilderAdd(@, Head(w.stream))]
    ELSE [w EXCEPT !.stream = Tail(@), !.b = BuilderAdd(@, Head(w.stream))]

\* one turn of the merge loop of merge_fsts: the memtable's pair below the
\* stream's key, or the memtable's pair for that key if it has one, else the
\* stream's
WalkStep(w) ==
    IF w.stream = <<>>
    THEN [w EXCEPT !.items = Tail(@), !.b = BuilderAdd(@, Head(w.items))]
    ELSE IF w.items # <<>> /\ Head(w.items)[1] < Head(w.stream)[1]
         THEN [w EXCEPT !.items = Tail(@), !.b = BuilderAdd(@, Head(w.items))]
    ELSE IF w.items # <<>> /\ Head(w.items)[1] = Head(w.stream)[1]
         THEN [w EXCEPT !.stream = Tail(@), !.items = Tail(@),
                        !.b = BuilderAdd(@, Head(w.items))]
    ELSE [w EXCEPT !.stream = Tail(@), !.b = BuilderAdd(@, Head(w.stream))]

\* the loop is over: nothing is left, or `add` has returned an error
Walked(w) == ~w.b.ok \/ (w.stream = <<>> /\ w.items = <<>>)

\* up to n turns of the loop
WalkTurns == 16
RECURSIVE WalkSteps(_, _)
WalkSteps(w, n) == IF n = 0 \/ Walked(w) THEN w ELSE WalkSteps(WalkStep(w), n - 1)

RECURSIVE WalkAll(_)
WalkAll(w) == IF Walked(w) THEN w ELSE WalkAll(WalkSteps(w, WalkTurns))

\* the merge loop of merge_fsts
Walk(stream, items, b) == WalkAll([stream |-> stream, items |-> items, b |-> b]).b

\* Database::write_index: the staged index renamed over the index
WriteIndex(d, dsk) ==
    [dsk EXCEPT !.index = [i \in DOMAIN d.fsts |-> IndexFst(d.fsts[i])],
                !.made = [i \in DOMAIN d.fsts |-> d.fsts[i].fst]]

Without(m, k) == [x \in DOMAIN m \ {k} |-> m[x]]

\* the loop over to_remove: the directory after each remove_file
RECURSIVE RemoveSteps(_, _)
RemoveSteps(dsk, to_remove) ==
    IF to_remove = <<>> THEN <<>>
    ELSE LET origin == <<Head(to_remove).id, Head(to_remove).level>>
         IN  IF origin \in DOMAIN dsk.fst
             THEN LET removed == [dsk EXCEPT !.fst = Without(@, origin)]
                  IN  <<removed>> \o RemoveSteps(removed, Tail(to_remove))
             ELSE RemoveSteps(dsk, Tail(to_remove))

LastOr(q, x) == IF q = <<>> THEN x ELSE q[Len(q)]

\* merge_fsts, lines 405-421: the index is written, the merged FSTs are
\* removed, the log takes Flushed and is truncated
MergeIndexed(after, renamed, out, indexed, removals) ==
    LET logged == [LastOr(removals, indexed) EXCEPT !.log = @ \o LogItemWrite(Flushed)]
    IN  Done(after, [logged EXCEPT !.log = <<>>],
             (IF out = <<>> THEN <<>> ELSE <<renamed>>) \o <<indexed>> \o removals
                 \o <<logged>>,
             TRUE)

\* merge_fsts, lines 386-404: the FSTs that were not merged, then the new one
\* with target_level
MergeRenamed(d, to_merge, target_level, out, renamed) ==
    LET merged == {to_merge[i].id : i \in DOMAIN to_merge}
        kept == Pick(d.fsts, {i \in DOMAIN d.fsts : d.fsts[i].id \notin merged}, 1)
        after == [d EXCEPT !.held = NoMap, !.fst_count = @ + 1,
                           !.fsts = IF out = <<>> THEN kept
                                    ELSE Append(kept, LevelFst(Len(out), d.fst_count,
                                                               target_level, out))]
        indexed == WriteIndex(after, renamed)
    IN  MergeIndexed(after, renamed, out, indexed, RemoveSteps(indexed, to_merge))

\* merge_fsts, lines 373-385: the staged FST is renamed to the path of the new
\* id and of the level of its length, unless it is empty; an error of the
\* builder is returned
MergeBuilt(d, dsk, to_merge, target_level, b) ==
    IF ~b.ok THEN Done([d EXCEPT !.held = NoMap, !.fst_count = @ + 1], dsk, <<>>, FALSE)
    ELSE MergeRenamed(d, to_merge, target_level, b.out,
                      IF b.out = <<>> THEN dsk
                      ELSE [dsk EXCEPT !.fst = Put(@, <<d.fst_count,
                                                        CalculateLevel(Len(b.out))>>,
                                                   b.out)])

\* merge_fsts, lines 316-372: nothing to do without FSTs and without items;
\* else the target level, the new id and the merge loop
MergeItems(d, dsk, to_merge, items, fails) ==
    IF to_merge = <<>> /\ items = <<>> THEN Done([d EXCEPT !.held = NoMap], dsk, <<>>, TRUE)
    ELSE MergeBuilt(d, dsk, to_merge, CalculateLevel(Len(items) + SumCounts(to_merge)),
                    Walk(UnionStream(to_merge), items, Builder(fails)))

\* Database::merge_fsts on the FSTs at the positions sel of d.fsts, with a
\* callback that fails on the keys `fails`
MergeFsts(d, dsk, sel, fails) ==
    MergeItems(d, dsk, Pick(d.fsts, sel, 1), SortedItems(d.held), fails)

\* a flush that merges up to the highest level that holds fanout FSTs or more
DbFlushHighest(d, dsk) ==
    IF d.held = NoMap THEN Done(d, dsk, <<>>, TRUE)
    ELSE
    LET levels == {d.fsts[i].level : i \in DOMAIN d.fsts}
        at(l) == {i \in DOMAIN d.fsts : d.fsts[i].level = l}
        full == {l \in levels : Cardinality(at(l)) >= fanout}
    IN  MergeFsts(d, dsk, {i \in DOMAIN d.fsts : \E l \in full : d.fsts[i].level <= l}, {})

\* Database::flush: the levels from the lowest up that hold fanout FSTs or more
DbFlush(d, dsk) ==
    IF d.held = NoMap THEN Done(d, dsk, <<>>, TRUE)
    ELSE
    LET levels == {d.fsts[i].level : i \in DOMAIN d.fsts}
        at(l) == {i \in DOMAIN d.fsts : d.fsts[i].level = l}
        full == {l \in levels : \A m \in levels : m <= l => Cardinality(at(m)) >= fanout}
    IN  MergeFsts(d, dsk, {i \in DOMAIN d.fsts : \E l \in full : d.fsts[i].level <= l}, {})

\* Database::merge with a callback that fails on the keys `fails`
DbMerge(d, dsk, fails) == MergeFsts([d EXCEPT !.fst_count = 0], dsk, DOMAIN d.fsts, fails)

\* the pairs Database::merge calls its callback with, in the order of the calls
MergeCalled(d, fails) ==
    Walk(UnionStream(d.fsts), SortedItems(d.held), Builder(fails)).called

\* the result of the steps that follow a write: the directory after that
\* write is one more point
After(dsk, r) == Done(r.db, r.disk, <<dsk>> \o r.points, r.ok)

\* Database::set after the log item: the flush at the threshold
DbSetLogged(inserted, logged) ==
    IF Cardinality(DOMAIN inserted.held) >= memory_threshold
    THEN After(logged, DbFlush(inserted, logged))
    ELSE Done(inserted, logged, <<>>, TRUE)

\* Database::set
DbSet(d, dsk, key, value) ==
    DbSetLogged([d EXCEPT !.held = Put(@, key, value)],
                [dsk EXCEPT !.log = @ \o LogItemWrite(Insert(key, value))])

\* the result of the sets so far and of one more
SetNext(r, s) == Done(s.db, s.disk, r.points \o <<r.disk>> \o s.points, s.ok)

\* `for (key, value) in to_add { self.set(key, value)?; }`, in key order
RECURSIVE SetAll(_, _)
SetAll(r, pairs) ==
    IF pairs = <<>> \/ ~r.ok THEN r
    ELSE SetAll(SetNext(r, DbSet(r.db, r.disk, Head(pairs)[1], Head(pairs)[2])),
                Tail(pairs))

\* restore_log, lines 237-243: the flush, the truncation of the log, the
\* removal of the backup
RestoreFlushed(sets, flush) ==
    IF ~flush.ok THEN Done(Closed, flush.disk, sets.points \o <<sets.disk>>, FALSE)
    ELSE LET emptied == [flush.disk EXCEPT !.log = <<>>]
         IN  Done(flush.db, [emptied EXCEPT !.log_backup = <<>>, !.has_backup = FALSE],
                  sets.points \o <<sets.disk>> \o flush.points \o <<flush.disk, emptied>>,
                  TRUE)

\* restore_log, lines 234-236: the sets of to_add
RestoreSets(sets) ==
    IF ~sets.ok THEN Done(Closed, sets.disk, sets.points, FALSE)
    ELSE RestoreFlushed(sets, DbFlush(sets.db, sets.disk))

\* restore_log, lines 211-232: with the log copied and truncated, the items
\* of the backup and then of the log, or the error of a read
RestoreRead(d, copied, truncated, base, current) ==
    IF ~(base.ok /\ current.ok) THEN Done(Closed, truncated, <<copied>>, FALSE)
    ELSE RestoreSets(SetAll(Done(d, truncated, <<copied>>, TRUE),
                            SortedItems(Replay(base.items \o current.items, NoMap))))

\* Database::restore_log
RestoreLog(d, dsk) ==
    LET log_end == Len(dsk.log)
        using_backup == dsk.has_backup
        copied == IF using_backup THEN dsk
                  ELSE [dsk EXCEPT !.log_backup = dsk.log, !.has_backup = TRUE]
    IN  RestoreRead(d, copied, [copied EXCEPT !.log = <<>>],
                    IF using_backup THEN Extract(dsk.log_backup, 0, log_end)
                    ELSE [items |-> <<>>, ok |-> TRUE],
                    Extract(dsk.log, 0, log_end))

\* DatabaseOptions::open of a directory that has an index
DbOpen(dsk) ==
    LET index == dsk.index
        path(i) == <<index[i].id, index[i].level>>
        ids == {index[i].id : i \in DOMAIN index}
        opened == [open |-> TRUE, held |-> NoMap,
                   fsts |-> [i \in DOMAIN index |->
                               LevelFst(index[i].count, index[i].id, index[i].level,
                                        dsk.fst[path(i)])],
                   fst_count |-> IF ids = {} THEN 0
                                 ELSE CHOOSE m \in ids : \A x \in ids : x <= m]
    IN  IF \E i \in DOMAIN index : path(i) \notin DOMAIN dsk.fst
        THEN Done(Closed, dsk, <<>>, FALSE)
        ELSE RestoreLog(opened, dsk)

\* bounds of the Database runs
DbKeys == {97, 98}
DbValues == {1, 2}
MaxSets == 3
MaxFlushes == 2
MaxMerges == 1
MaxKills == 2
\* the keys set once each: MaxFresh of them from FirstFresh on
FirstFresh == 100
MaxFresh == 16

\* (called: the pairs the callback of a merge was called with; before: the
\* Database a flush or a merge was called on)
NoCall == [op |-> "new", ok |-> TRUE, key |-> 0, value |-> 0, inside |-> "none", at |-> 0,
           called |-> <<>>, before |-> Closed]
Call(op, ok) == [NoCall EXCEPT !.op = op, !.ok = ok]

\* the state after DatabaseOptions::open has created the directory
InitDatabase ==
    /\ db = [Closed EXCEPT !.open = TRUE]
    /\ disk = NewDisk
    /\ hist = [model |-> NoMap, flushed |-> NoMap, call |-> NoCall, torn |-> FALSE,
               n |-> [sets |-> 0, fresh |-> 0, flushes |-> 0, merges |-> 0, kills |-> 0]]

\* what a set leaves and what its caller is told
SetReturns(key, value, r) ==
    /\ db' = r.db
    /\ disk' = r.disk
    /\ hist' = [hist EXCEPT !.model = IF r.ok THEN Put(@, key, value) ELSE @,
                            !.flushed = IF r.ok /\ r.db.held = NoMap
                                        THEN Put(hist.model, key, value) ELSE @,
                            !.call = [Call("set", r.ok) EXCEPT !.key = key,
                                                              !.value = value],
                            !.n.sets = IF key \in DbKeys THEN @ + 1 ELSE @,
                            !.n.fresh = IF key \in DbKeys THEN @ ELSE @ + 1]

\* what a flush, a merge or an open leaves and what its caller is told
Returns(r, call) ==
    /\ db' = r.db
    /\ disk' = r.disk
    /\ hist' = [hist EXCEPT !.flushed = IF r.ok THEN hist.model ELSE @,
                            !.call = [call EXCEPT !.ok = r.ok],
                            !.n.flushes = IF call.op = "flush" THEN @ + 1 ELSE @,
                            !.n.merges = IF call.op = "merge" THEN @ + 1 ELSE @]

\* (a key of DbKeys any number of times up to MaxSets; the other keys once
\* each, in increasing order, before any other call)
Set(key, value) ==
    /\ db.open
    /\ IF key \in DbKeys THEN hist.n.sets < MaxSets
       ELSE /\ hist.n.fresh < MaxFresh /\ key = FirstFresh + hist.n.fresh
            /\ hist.n.sets = 0 /\ hist.n.flushes = 0 /\ hist.n.merges = 0
    /\ SetReturns(key, value, DbSet(db, disk, key, value))
    /\ UNCHANGED <<store, lk, ark>>

Flush ==
    /\ db.open /\ hist.n.flushes < MaxFlushes
    /\ Returns(DbFlush(db, disk), [Call("flush", TRUE) EXCEPT !.before = db])
    /\ UNCHANGED <<store, lk, ark>>

Merge ==
    /\ db.open /\ hist.n.merges < MaxMerges
    /\ Returns(DbMerge(db, disk, {}),
               [Call("merge", TRUE) EXCEPT !.called = MergeCalled(db, {}), !.before = db])
    /\ UNCHANGED <<store, lk, ark>>

\* Database::merge with a callback that returns an error for the keys `fails`
MergeFailing(fails) ==
    /\ db.open /\ hist.n.merges < MaxMerges
    /\ Returns(DbMerge(db, disk, fails),
               [Call("merge", TRUE) EXCEPT !.called = MergeCalled(db, fails), !.before = db])
    /\ UNCHANGED <<store, lk, ark>>

\* the process is killed between two calls, or the Database is dropped
Kill ==
    /\ db.open /\ hist.n.kills < MaxKills
    /\ db' = Closed
    /\ hist' = [hist EXCEPT !.call = Call("kill", TRUE),
                            !.n.kills = @ + 1]
    /\ UNCHANGED <<disk, store, lk, ark>>

\* the process is killed inside a call, after any of its writes
KillInside(op, r) ==
    /\ hist.n.kills < MaxKills
    /\ \E i \in DOMAIN r.points :
          /\ disk' = r.points[i]
          /\ hist' = [hist EXCEPT !.call = [Call("kill", TRUE) EXCEPT !.inside = op],
                                  !.n.kills = @ + 1]
    /\ db' = Closed
    /\ UNCHANGED <<store, lk, ark>>

KillInFlush == db.open /\ hist.n.flushes < MaxFlushes /\ KillInside("flush", DbFlush(db, disk))
KillInMerge == db.open /\ hist.n.merges < MaxMerges /\ KillInside("merge", DbMerge(db, disk, {}))
KillInOpen == ~db.open /\ KillInside("open", DbOpen(disk))

\* DatabaseOptions::open in a new process
OpenAgain ==
    /\ ~db.open /\ hist.call.op # "open"
    /\ Returns(DbOpen(disk), [Call("open", TRUE) EXCEPT !.inside = hist.call.inside])
    /\ UNCHANGED <<store, lk, ark>>

OpenTornReturns(n, r) ==
    /\ db' = r.db
    /\ disk' = r.disk
    /\ hist' = [hist EXCEPT !.call = [Call("open_torn", r.ok) EXCEPT !.at = n],
                            !.torn = TRUE]

\* the same on a log that lost its tail: the first n bytes are left
OpenTorn(n) ==
    /\ ~db.open /\ hist.call.op = "kill" /\ hist.call.inside = "none" /\ ~hist.torn
    /\ OpenTornReturns(n, DbOpen([disk EXCEPT !.log = SubSeq(@, 1, n)]))
    /\ UNCHANGED <<store, lk, ark>>

(***************************************************************************)
(* int-multistore: IntsStore, a slab store of varuint lists, and Lookup,   *)
(* which maps each key to the record of its list through the Database.     *)
(* The slab store of the model stands for the one IntsStore creates (it    *)
(* differs in the spec magic of its header).                               *)
(***************************************************************************)
LkKeys == {97, 98}
LkValues == {1, 2, 300}

RECURSIVE BitXor(_, _)
BitXor(a, b) ==
    IF a = 0 THEN b ELSE IF b = 0 THEN a
    ELSE ((a + b) % 2) + 2 * BitXor(a \div 2, b \div 2)

RECURSIVE BitOr(_, _)
BitOr(a, b) ==
    IF a = 0 THEN b ELSE IF b = 0 THEN a
    ELSE (IF a % 2 = 1 \/ b % 2 = 1 THEN 1 ELSE 0) + 2 * BitOr(a \div 2, b \div 2)

\* Id::marker of a length below 256 (usize of 64 bits)
Marker(length) ==
    LET leading_zeros == 64 - NeededBits(length)
        lz == ILog(leading_zeros \div 2, 2) % 4
        first == (length \div (2 ^ SaturatingSub(61, leading_zeros))) % 256
        last_two == length % 4
        r == length
        reduce == BitXor(BitXor(r % 4, (r \div 4) % 4),
                         BitXor((r \div 16) % 4, (r \div 64) % 4))
    IN  BitOr(BitOr(lz, (first * 4) % 256), BitOr(last_two * 16, reduce * 64))

\* Id::pack on the Id of the record at `at` with a payload of `length` bytes
\* (PackedId::from_parts)
IdPack(at, length) == at * 256 + Marker(length)

\* Idx::new and Id::from_packed: the offset of the record, with PackedId::new
\* refusing 0
IdxNew(n) == IF n = 0 THEN None ELSE Some(n \div 256)

\* Stored::single
StoredSingle(n) == [items |-> <<n>>, byte_length |-> VarintSize(n), ok |-> TRUE]

\* Stored::load from pos on: zeros are skipped; ok is FALSE when read_varint
\* fails (the unwrap panics)
RECURSIVE StoredLoadFrom(_, _)
StoredLoadFrom(b, pos) ==
    IF pos >= Len(b) THEN [items |-> <<>>, byte_length |-> 0, ok |-> TRUE]
    ELSE LET r == VarintRead(b, pos)
         IN  IF ~r.ok THEN [items |-> <<>>, byte_length |-> 0, ok |-> FALSE]
             ELSE LET rest == StoredLoadFrom(b, r.next)
                  IN  IF r.value = 0 THEN rest
                      ELSE [items |-> <<r.value>> \o rest.items,
                            byte_length |-> (r.next - pos) + rest.byte_length,
                            ok |-> rest.ok]

StoredLoad(b) == StoredLoadFrom(b, 0)

\* slice::binary_search between lo and hi: Ok(idx) or Err(idx), 0-based
RECURSIVE BinarySearch(_, _, _, _)
BinarySearch(items, item, lo, hi) ==
    IF lo >= hi THEN [found |-> FALSE, idx |-> lo]
    ELSE LET mid == lo + (hi - lo) \div 2
         IN  IF items[mid + 1] = item THEN [found |-> TRUE, idx |-> mid]
             ELSE IF items[mid + 1] < item THEN BinarySearch(items, item, mid + 1, hi)
             ELSE BinarySearch(items, item, lo, mid)

\* Vec::insert at a 0-based index
VecInsert(items, idx, item) ==
    SubSeq(items, 1, idx) \o <<item>> \o SubSeq(items, idx + 1, Len(items))

\* an extend that pushes the new item at the end
StoredExtendAtEnd(s, item) ==
    LET r == BinarySearch(s.items, item, 0, Len(s.items))
    IN  IF r.found THEN s
        ELSE [s EXCEPT !.items = Append(s.items, item),
                       !.byte_length = @ + VarintSize(item)]

\* Stored::extend with one item
StoredExtend(s, item) ==
    LET r == BinarySearch(s.items, item, 0, Len(s.items))
    IN  IF r.found THEN s
        ELSE [s EXCEPT !.items = VecInsert(s.items, r.idx, item),
                       !.byte_length = @ + VarintSize(item)]

\* Stored::to_bytes: byte_length zeros, the items written from the start
RECURSIVE WriteItems(_, _, _)
WriteItems(v, items, pos) ==
    IF items = <<>> THEN v
    ELSE WriteItems(CopyInto(v, pos, VarintWrite(Head(items))), Tail(items),
                    pos + VarintSize(Head(items)))

StoredToBytes(s) == WriteItems(Zeros(s.byte_length), s.items, 0)

\* Lookup::get(Lookup::get_idx(key)): the decoded list, ok FALSE when the key
\* is not in the map, the record cannot be read or it does not decode
LookupGet(d, b, key) ==
    LET n == DbGet(d, key)
        idx == IF n = None THEN None ELSE IdxNew(n[1])
        got == IF idx = None THEN Outcome(FALSE, "None", <<>>) ELSE Get(b, idx[1])
        stored == StoredLoad(got.data)
    IN  [ok |-> got.ok /\ stored.ok, items |-> IF got.ok /\ stored.ok THEN stored.items ELSE <<>>]

\* (at, slab_at: the steps of the call and of its add a kill came at)
NoLookupCall == [pc |-> "idle", op |-> "new", ok |-> TRUE, key |-> 0, n |-> 0, old |-> 0,
                 new |-> 0, bytes |-> <<>>, adds |-> 0, at |-> "", slab_at |-> ""]

\* Lookup::new: an empty slab and an empty map; no key has an Idx yet
InitLookup ==
    lk = [call |-> NoLookupCall,
          idx |-> [key \in LkKeys |-> 0],
          given |-> [key \in LkKeys |-> <<>>],
          crashes |-> 0,
          staged |-> <<>>,
          was |-> [key \in LkKeys |-> [ok |-> FALSE, items |-> <<>>]],
          cleanups |-> 0]

\* Lookup::set and Lookup::insert up to the payload of the new record:
\* IntsStore::set builds it from the value, IntsStore::insert_many from the
\* record of the Idx the caller holds. A call returns the error of the get.
LkCall(op, key, n) ==
    /\ lk.call.pc = "idle" /\ lk.call.ok
    /\ alive /\ pc = "idle" /\ db.open
    /\ count.adds < MaxAdds
    /\ count.ops < (IF op = "set" THEN MaxOps ELSE MaxOps - 1)
    /\ IF op = "set" THEN lk.idx[key] = 0 ELSE lk.idx[key] # 0
    /\ LET idx == IdxNew(lk.idx[key])
           got == IF op = "set" THEN Outcome(TRUE, "", <<>>) ELSE Get(backing, idx[1])
           stored == IF op = "set" THEN StoredSingle(n)
                     ELSE StoredExtend(StoredLoad(got.data), n)
           call == [NoLookupCall EXCEPT !.op = op, !.key = key, !.n = n,
                                        !.old = lk.idx[key], !.adds = count.adds]
       IN  IF got.ok /\ stored.ok
           THEN lk' = [lk EXCEPT !.call = [call EXCEPT !.pc = "add",
                                                       !.bytes = StoredToBytes(stored)]]
           ELSE lk' = [lk EXCEPT !.call = [call EXCEPT !.ok = FALSE]]
    /\ UNCHANGED <<store, db, disk, hist, ark>>

\* `self.0.add(&bytes)`: the first step of the add; its other steps are the
\* actions of RawStore::add
LkAdd ==
    /\ lk.call.pc = "add" /\ count.adds = lk.call.adds
    /\ AddBegin(lk.call.bytes)

\* an insert that goes on to the remove without the set of the map
MapSetSkipped(key, new, r) ==
    IF lk.call.op = "set"
    THEN /\ db' = r.db
         /\ disk' = r.disk
         /\ hist' = [hist EXCEPT !.model = Put(@, key, new)]
         /\ lk' = [lk EXCEPT !.call.pc = "idle", !.call.new = new,
                             !.idx[key] = new, !.given[key] = <<lk.call.n>>]
    ELSE /\ UNCHANGED <<db, disk, hist>>
         /\ lk' = [lk EXCEPT !.call.pc = "remove", !.call.new = new,
                             !.given[key] = Append(@, lk.call.n)]

\* what the set of the map leaves: Lookup::set returns the new Idx,
\* Lookup::insert goes on to remove the old record; both return an error of
\* the set
MapSetReturns(key, new, r) ==
    /\ db' = r.db
    /\ disk' = r.disk
    /\ hist' = [hist EXCEPT !.model = IF r.ok THEN Put(@, key, new) ELSE @,
                            !.call = [Call("set", r.ok) EXCEPT !.key = key, !.value = new]]
    /\ lk' = IF ~r.ok
             THEN [lk EXCEPT !.call.pc = "idle", !.call.ok = FALSE]
             ELSE IF lk.call.op = "set"
             THEN [lk EXCEPT !.call.pc = "idle", !.call.new = new,
                             !.idx[key] = new, !.given[key] = <<lk.call.n>>]
             ELSE [lk EXCEPT !.call.pc = "remove", !.call.new = new,
                             !.given[key] = Append(@, lk.call.n)]

\* `self.fsts.set(hash, id.get())` with the packed Id of the new record.
\* Lookup::set returns here; Lookup::insert goes on to remove the old record.
LkMapSet ==
    /\ lk.call.pc = "add" /\ count.adds = lk.call.adds + 1
    /\ alive /\ pc = "idle" /\ last.op = "add" /\ last.ok
    /\ db.open
    /\ MapSetReturns(lk.call.key, IdPack(last.id, Len(last.data)),
                     DbSet(db, disk, lk.call.key, IdPack(last.id, Len(last.data))))
    /\ UNCHANGED <<store, ark>>

\* `self.lookup.remove(old)`
LkRemove ==
    /\ lk.call.pc = "remove" /\ last.op = "add"
    /\ Remove(IdxNew(lk.call.old)[1])

\* Lookup::insert returns the Idx of the new record, or the error of the
\* remove
LkReturn ==
    /\ lk.call.pc = "remove" /\ pc = "idle" /\ last.op = "remove"
    /\ lk' = [lk EXCEPT !.call.pc = "idle", !.call.ok = last.ok,
                        !.idx[lk.call.key] = IF last.ok THEN lk.call.new ELSE @]
    /\ UNCHANGED <<store, db, disk, hist, ark>>

\* number of kills of the process in a run of the Lookup
MaxLkCrashes == 3

\* Lookup::open, lines 34-50: what IntsStore::open (o) and then
\* DatabaseOptions::open (r) leave; the caller takes the Idx of each key from
\* get_idx; staged is what the kill left of the file `.<name>.lkp~`, at is
\* the step of the call it came at
LookupOpens(o, r, staged, at) ==
    /\ Install(o)
    /\ db' = IF o.ok THEN r.db ELSE Closed
    /\ disk' = IF o.ok THEN r.disk ELSE disk
    /\ hist' = [hist EXCEPT !.flushed = IF o.ok /\ r.ok THEN hist.model ELSE @,
                            !.call = Call("open", o.ok /\ r.ok)]
    /\ lk' = [lk EXCEPT !.call = [NoLookupCall EXCEPT !.op = "crash", !.ok = o.ok /\ r.ok,
                                                      !.key = lk.call.key, !.n = lk.call.n,
                                                      !.old = lk.call.old,
                                                      !.new = lk.call.new,
                                                      !.at = at, !.slab_at = pc],
                        !.idx = [key \in LkKeys |->
                                    IF o.ok /\ r.ok /\ DbGet(r.db, key) # None
                                    THEN DbGet(r.db, key)[1] ELSE 0],
                        !.crashes = @ + 1,
                        !.staged = staged,
                        !.cleanups = IF at = "cleanup" THEN @ + 1 ELSE @]

\* the process is killed at any step of a call, or between two calls, and
\* the Lookup is opened again: the slab with Rollback, then the Database
LkCrash ==
    /\ alive /\ db.open /\ lk.call.ok /\ lk.crashes < MaxLkCrashes
    /\ LookupOpens(Open(backing, SpecMagic, "Rollback"), DbOpen(disk), lk.staged, lk.call.pc)
    /\ pc' = "idle"
    /\ cur' = NoCur
    /\ last' = [Result("crash", cur.start, cur.bytes, TRUE, "") EXCEPT !.pc = pc,
                                                                      !.strat = "Rollback"]
    /\ UNCHANGED <<check, dead, count, ark>>

(***************************************************************************)
(* Lookup::cleanup and the Filter of the slab store.                       *)
(***************************************************************************)
\* number of calls of Lookup::cleanup in a run, the killed ones included
MaxCleanups == 2

FilterOutcome(ok, err, to) == [ok |-> ok, err |-> err, to |-> to]

\* Filter::new: `to` is the mapping of the file `.<name>.lkp~`, opened with
\* create(true) and without truncate, so with the bytes it has
FilterNew(store_b, hl, to) == CopyInto(ResizeFor(to, hl), 0, SubSeq(store_b, 1, hl))

\* Filter::add on the Id packed in n: the record is copied to the offset it
\* has in the store
FilterAdd(store_b, to, n) ==
    LET at == n \div 256
        tag == TagRead(store_b, at)
        upto == tag.next + tag.length
    IN  IF tag.kind = "Panic" THEN FilterOutcome(FALSE, "Panic", to)
        ELSE IF tag.kind = "Unknown" THEN FilterOutcome(FALSE, "UnknownTag", to)
        ELSE IF tag.kind = "Writing" THEN FilterOutcome(FALSE, "EntryCorrupt", to)
        ELSE IF tag.kind # "Written" THEN FilterOutcome(FALSE, "IncorrectTag", to)
        ELSE IF Marker(tag.length) # n % 256 THEN FilterOutcome(FALSE, "IdCheck", to)
        ELSE IF upto > Len(store_b) THEN FilterOutcome(FALSE, "Panic", to)
        ELSE FilterOutcome(TRUE, "", CopyInto(ResizeFor(to, upto), at, Slice(store_b, at, upto)))

\* the callback of cleanup over the values the merge hands it, in order:
\* `if let Some(id) = Idx::new(id) { filter.add(id.as_id())? }`; steps are the
\* bytes of the file after Filter::new and after each add
RECURSIVE FilterAdds(_, _, _)
FilterAdds(store_b, f, ns) ==
    IF ns = <<>> \/ ~f.ok THEN f
    ELSE IF Head(ns) = 0 THEN FilterAdds(store_b, f, Tail(ns))
    ELSE LET one == FilterAdd(store_b, f.to, Head(ns))
         IN  FilterAdds(store_b, [ok |-> one.ok, err |-> one.err, to |-> one.to,
                                  steps |-> Append(f.steps, one.to)], Tail(ns))

\* `take_while(|&&b| b == 0).count()` from position
ZeroRun(to, position) ==
    LET others_at == {i \in position .. (Len(to) - 1) : to[i + 1] # 0}
    IN  IF others_at = {} THEN Len(to) - position
        ELSE (CHOOSE i \in others_at : \A j \in others_at : i <= j) - position

\* Filter::finish from position: each run of zero bytes that another byte
\* follows becomes a Deleted record, each other byte is read as the tag of a
\* Written record, and End goes where the loop stops
RECURSIVE FilterFinish(_, _)
FilterFinish(to, position) ==
    IF position >= Len(to) THEN FilterOutcome(TRUE, "", BackingWrite(to, position, <<END>>))
    ELSE IF to[position + 1] = 0
    THEN LET zero_run == ZeroRun(to, position)
             t == CalcTagLen(zero_run)
             bytes == TagBytesExact("Deleted", t.len, t.tag_len)
         IN  IF position + zero_run >= Len(to)
             THEN FilterOutcome(TRUE, "", BackingWrite(to, position, <<END>>))
             ELSE IF bytes = <<>> THEN FilterOutcome(FALSE, "Panic", to)
             ELSE FilterFinish(BackingWrite(to, position, bytes),
                               position + Len(bytes) + t.len)
    ELSE LET tag == TagRead(to, position)
         IN  IF tag.kind = "Panic" THEN FilterOutcome(FALSE, "Panic", to)
             ELSE IF tag.kind = "Unknown" THEN FilterOutcome(FALSE, "UnknownTag", to)
             ELSE IF tag.kind # "Written" THEN FilterOutcome(FALSE, "Panic", to)
             ELSE FilterFinish(to, tag.next + tag.length)

\* the pairs the callback of Database::merge is called with: each key once,
\* ascending, the memtable's value before an FST's
MergedPairs(d) ==
    Walk(UnionStream(d.fsts), SortedItems(d.held), Builder({})).out

Seconds(pairs) == [i \in DOMAIN pairs |-> pairs[i][2]]

\* the filter of cleanup up to the end of the merge
CleanupFilter(store_b, hl, staged, d) ==
    FilterAdds(store_b,
               [ok |-> TRUE, err |-> "", to |-> FilterNew(store_b, hl, staged),
                steps |-> <<FilterNew(store_b, hl, staged)>>],
               Seconds(MergedPairs(d)))

\* the files a kill inside cleanup leaves: the slab file, `.<name>.lkp~` and
\* the directory of the Database, after each add of the filter, after each
\* write of the merge, after finish and after the rename
CleanupImages(f, m, fin) ==
    [i \in DOMAIN f.steps |-> [file |-> backing, staged |-> f.steps[i], disk |-> disk]]
    \o (IF f.ok
        THEN [i \in DOMAIN m.points |-> [file |-> backing, staged |-> f.to,
                                         disk |-> m.points[i]]]
             \o <<[file |-> backing, staged |-> f.to, disk |-> m.disk]>>
        ELSE <<>>)
    \o (IF f.ok /\ m.ok /\ fin.ok
        THEN <<[file |-> backing, staged |-> fin.to, disk |-> m.disk],
               [file |-> fin.to, staged |-> <<>>, disk |-> m.disk]>>
        ELSE <<>>)

\* cleanup after the rename: the file is opened as the slab again
CleanupOpened(m, fin, o) ==
    /\ Install(o)
    /\ Returns(m, Call("merge", TRUE))
    /\ lk' = [lk EXCEPT !.call = [NoLookupCall EXCEPT !.op = "cleanup", !.ok = o.ok],
                        !.staged = <<>>,
                        !.was = [key \in LkKeys |-> LookupGet(db, backing, key)],
                        !.cleanups = @ + 1]
    /\ last' = Result("cleanup", 0, <<>>, o.ok, o.err)

\* cleanup returns the error of the filter or of the merge, or panics in
\* finish: the file `.<name>.lkp~` stays, the slab is the one it was
CleanupFails(m, staged, err) ==
    /\ Returns(m, Call("merge", TRUE))
    /\ lk' = [lk EXCEPT !.call = [NoLookupCall EXCEPT !.op = "cleanup", !.ok = FALSE],
                        !.staged = staged,
                        !.cleanups = @ + 1]
    /\ alive' = (err # "Panic")
    /\ last' = Result("cleanup", 0, <<>>, FALSE, err)
    /\ UNCHANGED <<backing, end, gaps, header_length>>

\* cleanup from the end of the merge on: finish, close, rename, open
CleanupFinished(m, fin) ==
    IF ~m.ok THEN CleanupFails(m, fin.to, "Merge")
    ELSE IF ~fin.ok THEN CleanupFails(m, fin.to, fin.err)
    ELSE CleanupOpened(m, fin, Open(fin.to, SpecMagic, "Rollback"))

\* cleanup from the callbacks on: an error of filter.add leaves the merge
\* with the memtable drained and nothing written
CleanupMerged(f) ==
    IF ~f.ok
    THEN CleanupFails(Done([db EXCEPT !.held = NoMap, !.fst_count = 1], disk, <<>>, FALSE),
                      f.to, f.err)
    ELSE CleanupFinished(DbMerge(db, disk, {}), FilterFinish(f.to, header_length))

\* Lookup::cleanup
LkCleanup ==
    /\ lk.call.pc = "idle" /\ lk.call.ok /\ lk.cleanups < MaxCleanups
    /\ alive /\ pc = "idle" /\ db.open
    /\ CleanupMerged(CleanupFilter(backing, header_length, lk.staged, db))
    /\ UNCHANGED <<pc, cur, check, dead, count, ark>>

\* the process is killed inside cleanup and the Lookup is opened again
CleanupKilled(images) ==
    \E i \in DOMAIN images :
        LookupOpens(Open(images[i].file, SpecMagic, "Rollback"), DbOpen(images[i].disk),
                    images[i].staged, "cleanup")

CleanupKilledIn(f) ==
    CleanupKilled(CleanupImages(f, DbMerge(db, disk, {}), FilterFinish(f.to, header_length)))

LkCleanupKill ==
    /\ lk.call.pc = "idle" /\ lk.call.ok /\ lk.cleanups < MaxCleanups
    /\ lk.crashes < MaxLkCrashes
    /\ alive /\ pc = "idle" /\ db.open
    /\ CleanupKilledIn(CleanupFilter(backing, header_length, lk.staged, db))
    /\ last' = [Result("crash", 0, <<>>, TRUE, "") EXCEPT !.pc = "cleanup",
                                                        !.strat = "Rollback"]
    /\ UNCHANGED <<pc, cur, check, dead, count, ark>>


(***************************************************************************)
(* covenant: the Ark.  Opener 1 is the process whose add calls are         *)
(* followed; opener 2 is another process that opens the same directories.  *)
(* Each of the six Lookups is taken as the lists it hands back: a key maps *)
(* to the ids given for it.                                                *)
(***************************************************************************)
\* TokenDistributor::new(32)
token_limit == 32
HashKinds == 1 .. 6

\* concurrent add calls of the Ark, add calls in a run, kills of its process
MaxArkTasks == 2
MaxArkAdds == 3
MaxArkKills == 1
\* calls of Ark::open by one process
MaxOpens == 2

ArkTasks == 1 .. MaxArkTasks
Openers == {1, 2}
LockPaths == {"data", "objects"}
Streams == {<<1>>, <<2>>, <<1, 2>>}

\* Hashes::extract: six digests of the bytes. The digests of the model are
\* functions of the bytes that collide on some of them, the last one on none
HashOf(kind, b) ==
    IF kind = 1 THEN Len(b)
    ELSE IF kind = 2 THEN b[1]
    ELSE IF kind = 3 THEN b[Len(b)]
    ELSE IF kind = 4 THEN (b[1] + b[Len(b)]) % 2
    ELSE IF kind = 5 THEN b[1] + Len(b)
    ELSE b[1] * 10 + (IF Len(b) > 1 THEN b[2] ELSE 0)

Extracted(b) == [kind \in HashKinds |-> HashOf(kind, b)]

NoTask == [pc |-> "idle", stream |-> <<>>, token |-> 0, map |-> <<>>, id |-> 0, at |-> 0]

\* the state before any Ark::open: no lock file is locked, no file exists
InitArk ==
    ark = [locks |-> [path \in LockPaths |-> {}],
           inst |-> [o \in Openers |-> [pc |-> "closed", told |-> "", tries |-> 0,
                                         refused |-> 0]],
           n |-> 1,
           tokens |-> <<>>,
           writer |-> 0,
           tasks |-> [t \in ArkTasks |-> NoTask],
           staging |-> NoMap,
           objects |-> NoMap,
           maps |-> [kind \in HashKinds |-> NoMap],
           returned |-> {},
           replaced |-> {},
           epoch |-> 0,
           adds |-> 0,
           kills |-> 0]

\* FileExt::try_lock_exclusive: the lock is taken unless another open file
\* holds it; it does not wait
TryLockAlways(holders) == TRUE
TryLockExclusive(holders) == holders = {}

\* Lookup::new on the directory of a hash kind: the slab is written anew
\* from its header on while the Database keeps its keys, so a key of an
\* earlier Ark names bytes of the old slab
Renewed(m) == [h \in DOMAIN m |-> [m[h] EXCEPT !.stale = TRUE]]

\* Ark::open, line 40: Lock::new on the lock file of the data directory
ArkLockData(o) ==
    /\ ark.inst[o].pc = "closed" /\ ark.inst[o].tries < MaxOpens
    /\ IF TryLockExclusive(ark.locks["data"])
       THEN ark' = [ark EXCEPT !.locks["data"] = @ \cup {o},
                               !.inst[o] = [@ EXCEPT !.pc = "data", !.told = "",
                                                     !.tries = @ + 1]]
       ELSE ark' = [ark EXCEPT !.inst[o] = [@ EXCEPT !.pc = "closed", !.told = "Err",
                                                     !.tries = @ + 1,
                                                     !.refused = @ + 1]]
    /\ UNCHANGED <<store, db, disk, hist, lk>>

\* Ark::open, lines 41-73: Lock::new on the lock file of the object
\* directory, which drops the first Lock when it fails; then Lookup::new for
\* each hash kind, as `index.ark` is never written, and the tokens
ArkLockObjects(o) ==
    /\ ark.inst[o].pc = "data"
    /\ IF TryLockExclusive(ark.locks["objects"])
       THEN ark' = [ark EXCEPT !.locks["objects"] = @ \cup {o},
                               !.inst[o] = [@ EXCEPT !.pc = "open", !.told = "Ok"],
                               !.maps = IF o = 1 THEN [kind \in HashKinds |-> Renewed(@[kind])]
                                        ELSE @,
                               !.tokens = IF o = 1 THEN [i \in 1 .. token_limit |-> i - 1]
                                          ELSE @,
                               !.epoch = IF o = 1 THEN @ + 1 ELSE @]
       ELSE ark' = [ark EXCEPT !.locks["data"] = @ \ {o},
                               !.inst[o] = [@ EXCEPT !.pc = "closed", !.told = "Err",
                                                     !.refused = @ + 1]]
    /\ UNCHANGED <<store, db, disk, hist, lk>>

\* the Ark is dropped: Drop for Lock unlocks both files
ArkDrop(o) ==
    /\ ark.inst[o].pc = "open"
    /\ o = 1 => \A t \in ArkTasks : ark.tasks[t].pc = "idle"
    /\ ark' = [ark EXCEPT !.locks = [path \in LockPaths |-> @[path] \ {o}],
                          !.inst[o] = [@ EXCEPT !.pc = "closed", !.told = ""]]
    /\ UNCHANGED <<store, db, disk, hist, lk>>

\* the process of the Ark is killed at any step: its locks go with it, its
\* files stay, and the next process starts with the static N at 1
ArkKill ==
    /\ ark.inst[1].pc # "closed" /\ ark.kills < MaxArkKills
    /\ ark' = [ark EXCEPT !.locks = [path \in LockPaths |-> @[path] \ {1}],
                          !.inst[1] = [@ EXCEPT !.pc = "closed", !.told = ""],
                          !.n = 1,
                          !.tokens = <<>>,
                          !.writer = 0,
                          !.tasks = [t \in ArkTasks |-> NoTask],
                          !.kills = @ + 1]
    /\ UNCHANGED <<store, db, disk, hist, lk>>

\* Ark::add, lines 77-80: a token under the read lock
AddAcquire(t, stream) ==
    /\ ark.inst[1].pc = "open" /\ ark.tasks[t].pc = "idle" /\ ark.adds < MaxArkAdds
    /\ ark.writer = 0 /\ ark.tokens # <<>>
    /\ ark' = [ark EXCEPT !.tokens = Tail(@),
                          !.adds = @ + 1,
                          !.tasks[t] = [NoTask EXCEPT !.pc = "stage", !.stream = stream,
                                                      !.token = Head(ark.tokens),
                                                      !.at = ark.adds + 1]]
    /\ UNCHANGED <<store, db, disk, hist, lk>>

\* the file `current-<token>` after the copy: it is opened with create(true)
\* and without truncate, so the stream is written over the bytes it has
WrittenOver(old, stream) == stream \o SubSeq(old, Len(stream) + 1, Len(old))

\* Ark::add, lines 82-97: the stream is copied to the staging file, the file
\* is mapped and hashed, with no lock held
AddStage(t) ==
    /\ ark.inst[1].pc = "open" /\ ark.tasks[t].pc = "stage"
    /\ LET token == ark.tasks[t].token
           old == IF token \in DOMAIN ark.staging THEN ark.staging[token] ELSE <<>>
           now == WrittenOver(old, ark.tasks[t].stream)
       IN  ark' = [ark EXCEPT !.staging = Put(@, token, now),
                              !.tasks[t] = [@ EXCEPT !.pc = "hashed", !.map = now]]
    /\ UNCHANGED <<store, db, disk, hist, lk>>

\* RwLock::write
WriteLockFree(writer) == writer = 0

\* Ark::add, line 100: the write lock
AddLock(t) ==
    /\ ark.inst[1].pc = "open" /\ ark.tasks[t].pc = "hashed"
    /\ WriteLockFree(ark.writer)
    /\ ark' = [ark EXCEPT !.writer = t, !.tasks[t].pc = "locked"]
    /\ UNCHANGED <<store, db, disk, hist, lk>>

\* Ark::add, lines 102-120: the ids every hash kind lists for the hash of
\* the bytes; "unfound" when a hash is unseen or no id is left. A key of an
\* earlier Ark reads as an error or as its list (stale_ok)
RECURSIVE Candidates(_, _, _, _, _)
Candidates(maps, kind, candidates, hashes, stale_ok) ==
    IF kind \notin HashKinds THEN [res |-> "found", ids |-> candidates[1]]
    ELSE IF hashes[kind] \notin DOMAIN maps[kind] THEN [res |-> "unfound", ids |-> {}]
    ELSE IF maps[kind][hashes[kind]].stale /\ ~stale_ok THEN [res |-> "err", ids |-> {}]
    ELSE LET nc == {maps[kind][hashes[kind]].ids[i] :
                       i \in DOMAIN maps[kind][hashes[kind]].ids}
             kept == IF candidates = None THEN nc ELSE candidates[1] \cap nc
         IN  IF candidates # None /\ kept = {} THEN [res |-> "unfound", ids |-> {}]
             ELSE Candidates(maps, kind + 1, Some(kept), hashes, stale_ok)

\* what an add that returns leaves: the token goes back to the channel, the
\* write lock is released
Returned(a, t, result) ==
    [a EXCEPT !.tokens = Append(@, a.tasks[t].token),
              !.writer = 0,
              !.tasks[t] = NoTask,
              !.returned = IF result.ok
                           THEN @ \cup {[stream |-> a.tasks[t].stream, id |-> result.id,
                                         fresh |-> result.fresh, epoch |-> a.epoch,
                                         nth |-> Cardinality(a.returned) + 1]}
                           ELSE @]

\* Ark::add, lines 124-140: the bytes of each candidate are compared; an
\* equal one is returned and the staging file removed
AddLookedUp(t, c) ==
    LET same == {id \in c.ids : id \in DOMAIN ark.objects
                                /\ ark.objects[id] = ark.tasks[t].map}
        lost == {id \in c.ids : id \notin DOMAIN ark.objects}
    IN  \/ /\ c.res = "err" \/ (c.res = "found" /\ lost # {})
           /\ ark' = Returned(ark, t, [ok |-> FALSE, id |-> 0, fresh |-> FALSE])
        \/ /\ c.res = "found"
           /\ \E id \in same :
                 ark' = Returned([ark EXCEPT !.staging = Without(@, ark.tasks[t].token)],
                                 t, [ok |-> TRUE, id |-> id, fresh |-> FALSE])
        \/ /\ c.res = "unfound" \/ (c.res = "found" /\ same = {} /\ lost = {})
           /\ ark' = [ark EXCEPT !.tasks[t].pc = "new"]

\* Ark::add, lines 101-140, under the write lock
AddLookup(t) ==
    /\ ark.inst[1].pc = "open" /\ ark.tasks[t].pc = "locked"
    /\ \E stale_ok \in BOOLEAN :
          AddLookedUp(t, Candidates(ark.maps, 1, None, Extracted(ark.tasks[t].map), stale_ok))
    /\ UNCHANGED <<store, db, disk, hist, lk>>

\* Ark::add, lines 144-151: Inner::next_id and the rename of the staging
\* file to Pather::path_for(id), a path that ends in the id
AddRename(t) ==
    /\ ark.inst[1].pc = "open" /\ ark.tasks[t].pc = "new"
    /\ ark' = [ark EXCEPT !.n = @ + 1,
                          !.objects = Put(@, ark.n, ark.tasks[t].map),
                          !.staging = Without(@, ark.tasks[t].token),
                          !.replaced = IF \E r \in ark.returned : r.id = ark.n
                                       THEN @ \cup {ark.n} ELSE @,
                          !.tasks[t] = [@ EXCEPT !.pc = "register", !.id = ark.n]]
    /\ UNCHANGED <<store, db, disk, hist, lk>>

\* Ark::add, lines 154-161: Lookup::insert for a hash that has a list,
\* Lookup::set for one that has none; an error of an insert is returned
RECURSIVE Registered(_, _, _, _, _)
Registered(maps, kind, hashes, id, stale_ok) ==
    IF kind \notin HashKinds THEN [ok |-> TRUE, maps |-> maps]
    ELSE IF hashes[kind] \notin DOMAIN maps[kind]
    THEN Registered([maps EXCEPT ![kind] = Put(@, hashes[kind],
                                               [ids |-> <<id>>, stale |-> FALSE])],
                    kind + 1, hashes, id, stale_ok)
    ELSE IF maps[kind][hashes[kind]].stale /\ ~stale_ok THEN [ok |-> FALSE, maps |-> maps]
    ELSE Registered([maps EXCEPT ![kind][hashes[kind]] =
                         [ids |-> StoredExtend([items |-> @.ids, byte_length |-> 0,
                                                ok |-> TRUE], id).items,
                          stale |-> FALSE]],
                    kind + 1, hashes, id, stale_ok)

AddRegistered(t, r) ==
    ark' = Returned([ark EXCEPT !.maps = r.maps], t,
                    [ok |-> r.ok, id |-> ark.tasks[t].id, fresh |-> TRUE])

\* Ark::add, lines 154-164
AddRegister(t) ==
    /\ ark.inst[1].pc = "open" /\ ark.tasks[t].pc = "register"
    /\ \E stale_ok \in BOOLEAN :
          AddRegistered(t, Registered(ark.maps, 1, Extracted(ark.tasks[t].map),
                                      ark.tasks[t].id, stale_ok))
    /\ UNCHANGED <<store, db, disk, hist, lk>>

(***************************************************************************)
(* Specifications.                                                         *)
(***************************************************************************)
Init == InitStore /\ InitDatabase /\ InitLookup /\ InitArk

\* a Lookup in one process: set and insert on the keys of LkKeys
LkCallAny == \E op \in {"set", "insert"}, key \in LkKeys, n \in LkValues : LkCall(op, key, n)
\* (MaxAdds records of at most 5 bytes free no gap that add would split, so
\* AddRemainder has no step to take here)
NextLookup == LkCallAny \/ LkAdd \/ AddPayload \/ AddEnd \/ AddFlush
              \/ AddFlip \/ AddReturn \/ LkMapSet \/ LkRemove \/ LkReturn
SpecLookup == Init /\ [][NextLookup]_vars

\* the same with kills of the process at any step, each followed by
\* Lookup::open
NextLookupCrash == LkCallAny \/ LkAdd \/ AddPayload \/ AddEnd \/ AddFlush
                   \/ AddFlip \/ AddReturn \/ LkMapSet \/ LkRemove \/ LkReturn \/ LkCrash
SpecLookupCrash == Init /\ [][NextLookupCrash]_vars

\* the calls of a Lookup with Lookup::cleanup, kills inside it, and kills of
\* an insert between the set of the map and the remove of the old record
LkCrashBeforeRemove == lk.call.pc = "remove" /\ pc = "idle" /\ last.op = "add" /\ LkCrash
NextCleanup == NextLookup \/ LkCrashBeforeRemove \/ LkCleanup \/ LkCleanupKill
SpecCleanup == Init /\ [][NextCleanup]_vars

\* add on a store with many gaps. The store is the one left by adds of
\* records of the sizes of a layout, each followed by an add of an empty
\* record, and by the removes of the former in the order they were added.
GapTotals == {2, 3, 7, 8}
GapPayloads == {<<1>>, <<1, 1>>}
MaxRun == 8

\* the layouts: a run of gaps of one size, then up to three more gaps
GapLayouts ==
    {Fill(k, a) \o rest : k \in {0, MaxRun - 1, MaxRun}, a \in GapTotals,
                          rest \in {<<>>} \cup {<<x>> : x \in GapTotals}
                                   \cup {<<x, y>> : x \in GapTotals, y \in {2, 3}}}

\* the adds of the layout: a record of each size, then an empty record
RECURSIVE Laid(_, _)
Laid(s, sizes) ==
    LET record == BackingWrite(s.backing, s.end,
                               TagBytes("Written", Head(sizes) - 1)
                                   \o Fill(Head(sizes) - 1, 1))
        next == [backing |-> BackingWrite(record, s.end + Head(sizes),
                                          TagBytes("Written", 0) \o <<END>>),
                 end |-> s.end + Head(sizes) + 1]
    IN  IF sizes = <<>> THEN s
        ELSE IF Len(next.backing) < next.end THEN s
        ELSE Laid(next, Tail(sizes))

\* the removes of the layout, first to last
RECURSIVE Unlaid(_, _, _)
Unlaid(s, position, sizes) ==
    LET e == Erase(s.backing, s.gaps, position, 1, Head(sizes) - 1)
    IN  IF sizes = <<>> THEN s
        ELSE IF e.panic THEN s
        ELSE Unlaid([backing |-> e.backing, gaps |-> e.gaps],
                    position + Head(sizes) + 1, Tail(sizes))

\* the store after the adds and the removes of the layout
LaidOut(sizes) ==
    LET n == NewBacking(SpecMagic)
        laid == Laid([backing |-> n.backing, end |-> n.header_length], sizes)
        u == Unlaid([backing |-> laid.backing, gaps |-> <<>>], n.header_length, sizes)
    IN  [backing |-> u.backing, gaps |-> u.gaps, end |-> laid.end]

RECURSIVE Separators(_, _)
Separators(position, sizes) ==
    IF sizes = <<>> THEN {}
    ELSE {position + Head(sizes)} \cup Separators(position + Head(sizes) + 1, Tail(sizes))

InitLaid(layouts) ==
    \E sizes \in layouts :
        /\ backing = LaidOut(sizes).backing
        /\ gaps = LaidOut(sizes).gaps
        /\ end = LaidOut(sizes).end
        /\ header_length = NewBacking(SpecMagic).header_length
        /\ alive = TRUE
        /\ pc = "idle"
        /\ cur = NoCur
        /\ check = [at \in Separators(NewBacking(SpecMagic).header_length, sizes) |-> <<>>]
        /\ dead = {}
        /\ last = Result("new", 0, <<>>, TRUE, "")
        /\ count = [ops |-> 0, adds |-> 0, retains |-> 0, crashes |-> 0]

InitGaps == InitLaid(GapLayouts) /\ InitDatabase /\ InitLookup /\ InitArk
AddSized == \E bytes \in GapPayloads : AddBegin(bytes)
NextGaps == AddSized \/ AddPayload \/ AddRemainder \/ AddEnd \/ AddFlush \/ AddFlip
            \/ AddReturn
SpecGaps == InitGaps /\ [][NextGaps]_vars

\* retain with any short list of held ids and Breaks, in any order, on a new
\* store and on one that holds five records with a gap before each, and after
\* adds of long records at the end
MaxKnown == 3
RetainLayouts == {<<>>, Fill(5, 3)}
KnownIds ==
    UNION {[1..n -> DOMAIN check \cup {BREAK}] : n \in 0..MaxKnown}
InitRetain == InitLaid(RetainLayouts) /\ InitDatabase /\ InitLookup /\ InitArk
RetainKnown == \E known_ids \in KnownIds : Retain(known_ids)
AddLong == AddBegin(Fill(LongLen, END))
NextRetain == AddLong \/ AddPayload \/ AddEnd \/ AddFlush \/ AddFlip \/ AddReturn
              \/ RetainKnown
SpecRetain == InitRetain /\ [][NextRetain]_vars

\* two processes that open the Ark, the add calls of the first, its kills
ArkLockDataAny == \E o \in Openers : ArkLockData(o)
ArkLockObjectsAny == \E o \in Openers : ArkLockObjects(o)
ArkDropAny == \E o \in Openers : ArkDrop(o)
AddAcquireAny == \E t \in ArkTasks, stream \in Streams : AddAcquire(t, stream)
AddStageAny == \E t \in ArkTasks : AddStage(t)
AddLockAny == \E t \in ArkTasks : AddLock(t)
AddLookupAny == \E t \in ArkTasks : AddLookup(t)
AddRenameAny == \E t \in ArkTasks : AddRename(t)
AddRegisterAny == \E t \in ArkTasks : AddRegister(t)
NextArk == ArkLockDataAny \/ ArkLockObjectsAny \/ ArkDropAny \/ ArkKill \/ AddAcquireAny
           \/ AddStageAny \/ AddLockAny \/ AddLookupAny \/ AddRenameAny \/ AddRegisterAny
SpecArk == Init /\ [][NextArk]_vars

\* a TokenDistributor of a small limit and the tasks that call acquire and
\* drop the Token they got. `ark` holds the channel of the distributor and,
\* for each task, where it is: idle, in recv, holding a Token, or in a
\* send_blocking that found the channel full.
MaxLimit == 2
MaxPoolTasks == 3
MaxDrops == 3
PoolTasks == 1 .. MaxPoolTasks

\* TokenDistributor::new: a channel of capacity limit that holds the ids
\* 0..limit-1
TokenDistributorNew(limit) ==
    [limit |-> limit, tokens |-> [i \in 1 .. limit |-> i - 1],
     tasks |-> [t \in PoolTasks |-> [pc |-> "idle", token |-> 0]], drops |-> 0]

InitPool ==
    /\ InitStore /\ InitDatabase /\ InitLookup
    /\ \E limit \in 1 .. MaxLimit : ark = TokenDistributorNew(limit)

\* a recv that hands out the head of the channel and leaves it there
RecvKept(p, t) ==
    [p EXCEPT !.tasks[t] = [pc |-> "holding", token |-> Head(p.tokens)]]

\* rx.recv() of task t on a channel that is not empty: the head leaves the
\* channel and becomes the id of the Token
Recv(p, t) ==
    [p EXCEPT !.tokens = Tail(@),
              !.tasks[t] = [pc |-> "holding", token |-> Head(p.tokens)]]

\* tx.send_blocking(id) of task t: the id joins the channel, or the task
\* blocks when the channel is full
SendBlocking(p, t) ==
    IF Len(p.tokens) < p.limit
    THEN [p EXCEPT !.tokens = Append(@, p.tasks[t].token),
                   !.tasks[t] = [pc |-> "idle", token |-> 0],
                   !.drops = @ + 1]
    ELSE [p EXCEPT !.tasks[t].pc = "blocked"]

\* TokenDistributor::acquire is called: the task awaits recv
Acquire(t) ==
    /\ ark.tasks[t].pc = "idle"
    /\ ark' = [ark EXCEPT !.tasks[t].pc = "recv"]
    /\ UNCHANGED <<store, db, disk, hist, lk>>

\* acquire completes: recv has returned an id
Acquired(t) ==
    /\ ark.tasks[t].pc = "recv" /\ ark.tokens # <<>>
    /\ ark' = Recv(ark, t)
    /\ UNCHANGED <<store, db, disk, hist, lk>>

\* Drop for Token
TokenDrop(t) ==
    /\ ark.tasks[t].pc = "holding" /\ ark.drops < MaxDrops
    /\ ark' = SendBlocking(ark, t)
    /\ UNCHANGED <<store, db, disk, hist, lk>>

AcquireAny == \E t \in PoolTasks : Acquire(t)
AcquiredAny == \E t \in PoolTasks : Acquired(t)
TokenDropAny == \E t \in PoolTasks : TokenDrop(t)
NextPool == AcquireAny \/ AcquiredAny \/ TokenDropAny
SpecPool == InitPool /\ [][NextPool]_vars

\* the tag codec on its own: a tag written at a position of a zeroed
\* Backing::new_anon by write or by write_exact and read again there, a read
\* of the zeroed backing, and calc_tag_len of a span followed by the
\* write_exact of the Deleted tag it frames. `cur` holds the call and its
\* arguments, `last` what read returned.
TagKinds == {"Writing", "Written", "Deleted"}
\* the lengths around each change of the length of the tag, the lengths of
\* the tests of tag.rs, and the greatest length a tag holds
MaxTagLength == 134217727
TagLengths ==
    {0, 1, 3, 6, 7, 8, 9, 255, 256, 1023, 1024, 2047, 2048, 2303, 65535, 65536,
     524287, 524288, 16777215, 16777216, MaxTagLength}
\* the spans calc_tag_len frames: the least, those around each change of the
\* length of the tag, and the greatest
TotalLens ==
    (1 .. 12) \cup {2049, 2050, 2051, 524290, 524291, 524292, MaxTagLength + 3,
                   MaxTagLength + 4}
TagStarts == {0, 5}

NoTag == [op |-> "read", kind |-> "End", length |-> 0, tag_len |-> 0, total_len |-> 0,
          start |-> 0, position |-> 0]
NoRead == [kind |-> "None", length |-> 0, next |-> 0]

TagCalls ==
    {[NoTag EXCEPT !.start = at, !.position = at] : at \in TagStarts}
    \cup {[NoTag EXCEPT !.op = "write", !.start = at, !.position = at] : at \in TagStarts}
    \cup {[NoTag EXCEPT !.op = "write", !.kind = kind, !.length = length,
                        !.start = at, !.position = at] :
             kind \in TagKinds, length \in TagLengths, at \in TagStarts}
    \cup UNION {{[NoTag EXCEPT !.op = "write_exact", !.kind = kind, !.length = length,
                               !.tag_len = tag_len, !.start = at, !.position = at] :
                    tag_len \in WrittenLength(kind, length) .. 4} :
                 kind \in TagKinds, length \in TagLengths, at \in TagStarts}
    \cup {[NoTag EXCEPT !.op = "calc_tag_len", !.total_len = total_len,
                        !.start = at, !.position = at] :
             total_len \in TotalLens, at \in TagStarts}

InitTag ==
    /\ backing = Zeros(CHUNK)
    /\ header_length = 0 /\ end = 0 /\ gaps = <<>> /\ alive = TRUE
    /\ pc = "idle"
    /\ cur \in TagCalls
    /\ check = <<>> /\ dead = {}
    /\ last = NoRead
    /\ count = [ops |-> 0, adds |-> 0, retains |-> 0, crashes |-> 0]
    /\ InitDatabase /\ InitLookup /\ InitArk

\* the bytes are written at the position, which moves past them; no bytes
\* stand for a panic
TagWritten(bytes) ==
    /\ IF bytes = <<>>
       THEN pc' = "panic" /\ UNCHANGED <<backing, cur>>
       ELSE /\ backing' = BackingWrite(backing, cur.position, bytes)
            /\ cur' = [cur EXCEPT !.position = @ + Len(bytes)]
            /\ pc' = "written"
    /\ UNCHANGED <<end, gaps, header_length, alive, check, dead, last, count>>
    /\ UNCHANGED others

\* MagicTag::write
TagWrite ==
    /\ pc = "idle" /\ cur.op = "write"
    /\ TagWritten(TagBytes(cur.kind, cur.length))

\* MagicTag::write_exact
TagWriteExact ==
    /\ cur.op = "write_exact" /\ pc = (IF cur.total_len = 0 THEN "idle" ELSE "framed")
    /\ TagWritten(TagBytesExact(cur.kind, cur.length, cur.tag_len))

\* MagicTag::calc_tag_len of the span, whose result goes to write_exact as in
\* add and in remove
TagFrame ==
    /\ pc = "idle" /\ cur.op = "calc_tag_len"
    /\ LET t == CalcTagLen(cur.total_len)
       IN  IF t.tag_len = 0
           THEN pc' = "panic" /\ UNCHANGED cur
           ELSE /\ pc' = "framed"
                /\ cur' = [cur EXCEPT !.op = "write_exact", !.kind = "Deleted",
                                      !.length = t.len, !.tag_len = t.tag_len]
    /\ UNCHANGED <<backing, end, gaps, header_length, alive, check, dead, last, count>>
    /\ UNCHANGED others

\* MagicTag::read at the position the call started at
TagReadBack ==
    /\ \/ pc = "written"
       \/ pc = "idle" /\ cur.op = "read"
    /\ last' = TagRead(backing, cur.start)
    /\ pc' = "read"
    /\ UNCHANGED <<backing, end, gaps, header_length, alive, cur, check, dead, count>>
    /\ UNCHANGED others

NextTag == TagWrite \/ TagWriteExact \/ TagFrame \/ TagReadBack
SpecTag == InitTag /\ [][NextTag]_vars

\* a Database in one process: set, flush and merge
SetAny == \E key \in DbKeys, value \in DbValues : Set(key, value)
\* the sets of new keys that fill the memtable up to the threshold
SetFresh == Set(FirstFresh + hist.n.fresh, 1)
NextSession == SetAny \/ SetFresh \/ Flush \/ Merge
SpecSession == Init /\ [][NextSession]_vars

\* and merges whose callback fails on some keys
MergeFailingAny == \E fails \in (SUBSET DbKeys) \ {{}} : MergeFailing(fails)
NextCallback == SetAny \/ Flush \/ Merge \/ MergeFailingAny
SpecCallback == Init /\ [][NextCallback]_vars

\* flushes of a Database that holds FSTs of several levels. The Database is
\* the one left by a history of batches: the sets of the keys from..to with
\* the value 1, in key order, and then a flush call if `flush` is set (a
\* batch of memory_threshold keys is flushed by its last set).
Batch(from, to, flush) == [from |-> from, to |-> to, flush |-> flush]

\* the batches that leave one more FST of level 1 that holds LevelOneKeys keys
LevelOneKeys == 63
LevelOneRound ==
    <<Batch(1, 15, TRUE), Batch(16, 30, TRUE), Batch(31, 31, TRUE),
      Batch(32, 47, FALSE), Batch(48, LevelOneKeys, FALSE)>>

\* two FSTs of level 1, then the flush of one key that merges them into an
\* FST of level 2; twice two FSTs of level 1, then the flush of two keys that
\* merges them into an FST of level 3
History ==
    LevelOneRound \o LevelOneRound \o <<Batch(1, 1, TRUE)>>
        \o LevelOneRound \o LevelOneRound \o <<Batch(1, 2, TRUE)>>
        \o LevelOneRound \o LevelOneRound \o <<Batch(1, 2, TRUE)>>

\* the number of batches of the history a run starts after
Stops == {0, 2, 5, 7, 10, 11, 21, 22, 32, 33}

\* what a call leaves
Left(r) == [db |-> r.db, disk |-> r.disk, ok |-> r.ok]

RECURSIVE SetsRan(_, _, _)
SetsRan(r, from, to) ==
    IF from > to \/ ~r.ok THEN r
    ELSE SetsRan(Left(DbSet(r.db, r.disk, from, 1)), from + 1, to)

FlushRan(r, flush) == IF flush /\ r.ok THEN Left(DbFlush(r.db, r.disk)) ELSE r

RECURSIVE Ran(_, _)
Ran(r, batches) ==
    IF batches = <<>> \/ ~r.ok THEN r
    ELSE Ran(FlushRan(SetsRan(r, Head(batches).from, Head(batches).to),
                      Head(batches).flush),
             Tail(batches))

\* the keys set by the first n batches
KeysRan(n) == 1..(IF n = 0 THEN 0 ELSE IF n = 1 THEN 15 ELSE IF n = 2 THEN 30
                  ELSE LevelOneKeys)

StartsAfter(r, known) ==
    /\ db = r.db
    /\ disk = r.disk
    /\ hist = [model |-> known, flushed |-> known, call |-> NoCall, torn |-> FALSE,
               n |-> [sets |-> 0, fresh |-> 0, flushes |-> 0, merges |-> 0, kills |-> 0]]

InitFlushed ==
    \E n \in Stops :
        StartsAfter(Ran([db |-> [Closed EXCEPT !.open = TRUE], disk |-> NewDisk, ok |-> TRUE],
                        SubSeq(History, 1, n)),
                    [key \in KeysRan(n) |-> 1])

InitFlush == InitStore /\ InitFlushed /\ InitLookup /\ InitArk
NextFlush == SetAny \/ Flush
SpecFlush == InitFlush /\ [][NextFlush]_vars

\* a Database whose FSTs share their keys: the keys 1..memory_threshold set
\* twice, each round flushed by its last set into an FST of level 0; then
\* sets, flushes, drops and opens
Rounds == <<Batch(1, memory_threshold, FALSE), Batch(1, memory_threshold, FALSE)>>

InitShared ==
    \E n \in 0..Len(Rounds) :
        StartsAfter(Ran([db |-> [Closed EXCEPT !.open = TRUE], disk |-> NewDisk, ok |-> TRUE],
                        SubSeq(Rounds, 1, n)),
                    [key \in 1..(IF n = 0 THEN 0 ELSE memory_threshold) |-> 1])

InitLevels == InitStore /\ InitShared /\ InitLookup /\ InitArk
NextLevels == SetAny \/ Flush \/ Kill \/ OpenAgain
SpecLevels == InitLevels /\ [][NextLevels]_vars

\* and kills between and inside the calls, and opens of what is left
OpenTornAny == \E n \in 0..Len(disk.log) : OpenTorn(n)
NextDatabase ==
    SetAny \/ Flush \/ Merge \/ Kill \/ KillInFlush \/ KillInMerge \/ KillInOpen
        \/ OpenAgain \/ OpenTornAny
SpecDatabase == Init /\ [][NextDatabase]_vars

(***************************************************************************)
(* Specifications of the slab store.                                       *)
(***************************************************************************)
\* calls on the ids the caller holds (Checker::execute looks the id up by name)
RemoveAny == \E at \in DOMAIN check : Remove(at)
ReplaceAny == \E at \in DOMAIN check, with \in Replacements : Replace(at, with)
RetainAny == \E S \in SUBSET (DOMAIN check) : Retain(Ascending(S))
CrashAny == \E strat \in Strategies : Crash(strat)
\* calls on the id of a removed record
RemoveStale == \E at \in dead : Remove(at)
ReplaceStale == \E at \in dead, with \in Replacements : Replace(at, with)

\* add, remove, replace and clean reopen only
NextPlain == Add \/ RemoveAny \/ ReplaceAny \/ Reopen

SpecPlain == Init /\ [][NextPlain]_vars

\* the offsets where the slab has a record or the End tag and the caller
\* holds no id (an Id can be made from any non-zero number, PackedId::new)
Probes ==
    ({ScanRecords(backing, header_length).recs[i].at :
         i \in DOMAIN ScanRecords(backing, header_length).recs} \cup {end}) \ DOMAIN check
\* replace on such an offset
ReplaceProbe == \E at \in Probes, with \in Replacements : Replace(at, with)

\* replace on a held id with a failing flush
ReplaceFail == \E at \in DOMAIN check, with \in Replacements : ReplaceFlushFail(at, with)

\* the same, and calls on the ids of removed records and on offsets never
\* handed out, and adds and replaces that fail on the flush
NextStale ==
    Add \/ RemoveAny \/ ReplaceAny \/ Reopen \/ RemoveStale \/ ReplaceStale
        \/ AddFail \/ ReplaceProbe \/ ReplaceFail

SpecStale == Init /\ [][NextStale]_vars

\* opens of whole and cut images of the file of a store
OpenCutAny == \E n \in Cuts, strat \in Strategies : OpenCut(n, strat)

\* opens that expect the store's spec magic or another one
OpenWithAny == \E expected \in OtherMagics \cup {SpecMagic} : OpenWith(expected)

NextImages == Add \/ RemoveAny \/ OpenCutAny \/ OpenWithAny

SpecImages == Init /\ [][NextImages]_vars

\* every operation on held ids, and crashes
Next == Add \/ RemoveAny \/ ReplaceAny \/ Reopen \/ RetainAny \/ CrashAny

Spec == Init /\ [][Next]_vars


(***************************************************************************)
(* Properties.                                                             *)
(***************************************************************************)
Idle == alive /\ pc = "idle"
Live == DOMAIN check

Slab == ScanRecords(backing, header_length)
DeletedBySlab ==
    {Gap(r.at, r.length, r.tag_len) : r \in {x \in Range(Slab.recs) : x.kind = "Deleted"}}

RECURSIVE SumSizes(_)
SumSizes(S) ==
    IF S = {} THEN 0
    ELSE LET x == CHOOSE y \in S : TRUE IN x.size + SumSizes(S \ {x})

\* the span of the live record at id, read through its tag
LiveSpan(id) ==
    [at |-> id, size |-> (TagRead(backing, id).next - id) + Len(check[id])]
GapSpan(g) == [at |-> g.at, size |-> g.tag_len + g.length]
Spans == {LiveSpan(id) : id \in Live} \cup {GapSpan(gaps[i]) : i \in DOMAIN gaps}

\* C1: every id returned by add and not since removed reads exactly the
\* bytes given to that add, or to the last successful replace on it, whatever
\* was added, removed or replaced elsewhere in between; no call on a held id
\* panics.
RoundTrip ==
    /\ alive
    /\ \A id \in Live : Get(backing, id) = Outcome(TRUE, "", check[id])

\* a replaced record and an untouched one are both live while another record
\* has been removed
RoundTripWitness ==
    /\ Idle /\ last.op = "replace" /\ last.ok
    /\ Cardinality(Live) >= 2 /\ dead # {}

\* C4: between calls the live records and the gaps tile [header_length, end):
\* they lie inside it, no two overlap, and their tag bytes and payload bytes
\* add up to end - header_length.
GapCoverage ==
    Idle =>
        /\ \A x \in Spans : x.at >= header_length /\ x.at + x.size <= end
        /\ \A x, y \in Spans : x.at < y.at => x.at + x.size <= y.at
        /\ Cardinality(Spans) = Cardinality(Live) + Len(gaps)
        /\ SumSizes(Spans) = end - header_length

\* a gap has been split by an add: a live record sits before a gap, and
\* another live record follows
GapCoverageWitness ==
    /\ Idle /\ last.op = "add" /\ last.ok
    /\ \E i \in DOMAIN gaps : gaps[i].at = last.id + 1
    /\ \E id \in Live : id > last.id

\* C5: between calls the gap list names exactly the Deleted records a scan of
\* the slab finds, each once, and no gap ends where another begins.
GapMinimality ==
    Idle =>
        /\ Slab.stop = end
        /\ Range(gaps) = DeletedBySlab
        /\ Cardinality(Range(gaps)) = Len(gaps)
        /\ \A i, j \in DOMAIN gaps : gaps[i].at + gaps[i].tag_len + gaps[i].length # gaps[j].at

\* a remove has merged the record with a gap before it and a gap after it
GapMinimalityWitness ==
    /\ Idle /\ last.op = "remove" /\ last.ok
    /\ Len(gaps) = Len(last.pre.gaps) - 1

\* C7: close() followed by open() with the same spec magic succeeds and gives
\* a store with the same end, the same gaps and the same payload for every
\* live id.
ReopenEquivalence ==
    (pc = "idle" /\ last.op = "reopen") =>
        /\ last.ok /\ alive
        /\ end = last.pre.end
        /\ Range(gaps) = Range(last.pre.gaps) /\ Len(gaps) = Len(last.pre.gaps)
        /\ \A id \in Live : Get(backing, id) = Outcome(TRUE, "", check[id])

\* a store with two gaps and a live record has been closed and opened
ReopenEquivalenceWitness ==
    /\ Idle /\ last.op = "reopen" /\ last.ok
    /\ Len(gaps) >= 2 /\ Live # {}

\* C10, whatever the error: once removed, and until an add reuses the space,
\* get(id) and a second remove(id) both fail, whether the removal flipped the
\* tag in place or merged the record with a gap before or after it.
StaleIdFails ==
    Idle => \A id \in dead :
        /\ ~Get(backing, id).ok
        /\ RemoveRefusal(backing, id) # ""

\* the steps of add before the Writing -> Written flip is written
BeforeFlip == {"tag", "payload", "rest", "endtag", "flushed"}

\* a crash has just been followed by an open
Recovered == pc = "idle" /\ last.op = "crash"

\* C2: when the process dies inside add and the store is opened again, the
\* record is live and reads the bytes given to add if add had flushed the
\* flipped tag byte and returned; if the process died at any step before the
\* flip was written, no Written record stands at the place of the record.
DurableAdd ==
    Recovered =>
        /\ last.pc = "done" =>
              /\ last.ok /\ alive
              /\ Get(backing, last.id) = Outcome(TRUE, "", last.data)
        /\ last.pc \in BeforeFlip => TagRead(backing, last.id).kind # "Written"

\* the process died after the flush of a record's bytes and before the flip,
\* beside a live record; Rollback opened the store and the record is a
\* Deleted one
DurableAddWitness ==
    /\ Recovered /\ alive /\ last.ok /\ last.pc = "flushed" /\ last.strat = "Rollback"
    /\ TagRead(backing, last.id).kind = "Deleted"
    /\ Live # {}

\* C3 as claimed: after a crash between any two backing writes of an add,
\* open with Rollback succeeds, the End tag is where the scan ends, the
\* interrupted record is a Deleted record of the same span and every record
\* that was live still reads its payload.
RollbackRecovers ==
    (Recovered /\ last.strat = "Rollback" /\ last.pc \in BeforeFlip) =>
        /\ last.ok /\ alive
        /\ Slab.stop = end
        /\ TagRead(backing, last.id).kind = "Deleted"
        /\ TagRead(backing, last.id).length = Len(last.data)
        /\ \A id \in Live : Get(backing, id) = Outcome(TRUE, "", check[id])

\* the End tag stands at offset end and every byte after it is zero
EndByte ==
    /\ end + 1 <= Len(backing) /\ backing[end + 1] = END
    /\ \A i \in (end + 2)..Len(backing) : backing[i] = 0

\* an add that appends at end is between its Writing tag and its new End tag
Appending == pc \in {"tag", "payload"} /\ cur.expected = "End"

\* C6 as claimed: at all times, during an add too, the End tag stands at
\* offset end and every byte after it is zero.
EndAlways == alive => EndByte

\* C6 amended: between calls the scan of the records ends on the End tag at
\* offset end and every byte after it is zero; during an add into a gap the
\* End tag stays at end; during an add that appends there is no End tag at
\* all from the write of the Writing tag until the new End tag is written.
EndTagInvariant ==
    alive =>
        /\ pc = "idle" => Slab.stop = end /\ EndByte
        /\ (pc # "idle" /\ ~Appending) => EndByte
        /\ Appending => backing[end + 1] # END /\ Slab.stop = -1

\* the payload of an appended record is written after live records and a gap,
\* and the End tag is not yet written again
EndTagWitness ==
    /\ alive /\ Appending /\ pc = "payload"
    /\ Live # {} /\ gaps # <<>>

\* retain has just returned Ok
Retained == pc = "idle" /\ last.op = "retain" /\ last.ok

RetainDeletesRest ==
    Retained =>
        \A id \in DOMAIN last.pre.check \ Range(last.ids) :
            TagRead(backing, id).kind # "Written"

\* a replace call has just returned
ReplaceStep == last' # last /\ last'.op = "replace"

\* C11 as claimed: whenever replace fails, no byte of the backing is changed.
ReplaceFailureChangesNothing ==
    [][(ReplaceStep /\ ~last'.ok) => backing' = backing]_vars

\* C11 amended: replace(id, with, f) succeeds only on a Written record of
\* length Len(with); on such a record f sees the old payload, the payload
\* bytes become `with` and nothing else changes, and the call returns Ok or,
\* when the flush fails, the Flush error.  On a Written record of another
\* length it fails with MismatchedLengths, on a Writing record with
\* EntryCorrupt, on a Deleted record with CannotReplaceDeleted and on the End
\* tag with IncorrectTag, and then the backing is as before.  end and the gap
\* list never change.
ReplaceContract ==
    [][ReplaceStep =>
        LET at == last'.id
            with == last'.data
            tag == TagRead(backing, at)
            fits == tag.kind = "Written" /\ tag.length = Len(with)
        IN  /\ last'.ok => fits
            /\ fits => (last'.ok \/ last'.err = "Flush")
            /\ end' = end /\ gaps' = gaps /\ Len(backing') = Len(backing)
            /\ fits =>
                  /\ last'.seen = Slice(backing, tag.next, tag.next + tag.length)
                  /\ Get(backing', at) = Outcome(TRUE, "", with)
                  /\ \A i \in 1..Len(backing) :
                        (i <= tag.next \/ i > tag.next + tag.length) => backing'[i] = backing[i]
            /\ ~fits =>
                  /\ backing' = backing
                  /\ tag.kind = "Written" => last'.err = "MismatchedLengths"
                  /\ tag.kind = "Writing" => last'.err = "EntryCorrupt"
                  /\ tag.kind = "Deleted" => last'.err = "CannotReplaceDeleted"
                  /\ tag.kind = "End" => last'.err = "IncorrectTag"
    ]_vars

\* replace has been refused on a Writing record left by a failed add, in a
\* store that holds a live record and a gap
ReplaceContractWitness ==
    /\ Idle /\ last.op = "replace" /\ ~last.ok /\ last.err = "EntryCorrupt"
    /\ Live # {} /\ gaps # <<>>

\* an open with RecoveryStrategy::Error has just returned
OpenErrorStep == last' # last /\ last'.op = "open" /\ last'.strat = "Error"

\* the first Writing record of a scan's records, as a set of at most one
FirstWriting(recs) ==
    {recs[i] : i \in {j \in DOMAIN recs :
                        recs[j].kind = "Writing" /\ \A k \in 1..(j - 1) : recs[k].kind # "Writing"}}

\* C12: open with RecoveryStrategy::Error on an image whose scan meets a
\* Writing record fails with PartialWrite carrying the position and length of
\* that record; on an image whose scan runs past the last byte without an End
\* tag it fails with NoEnd; in both cases the bytes of the image are as they
\* were.
ErrorNeverRepairs ==
    [][OpenErrorStep =>
        LET image == Slice(backing, 0, last'.id)
            scan == ScanRecords(image, header_length)
            w == FirstWriting(scan.recs)
        IN  /\ w # {} =>
                  /\ ~last'.ok /\ last'.err = "PartialWrite"
                  /\ \A r \in w : last'.position = r.at /\ last'.length = r.length
                  /\ backing' = image
            /\ (w = {} /\ scan.why = "NoMore") =>
                  /\ ~last'.ok /\ last'.err = "NoEnd"
                  /\ backing' = image
    ]_vars

\* an image cut at its End tag, holding a live record and a gap, has been
\* refused with NoEnd
ErrorNeverRepairsWitness ==
    /\ pc = "idle" /\ last.op = "open" /\ last.strat = "Error" /\ last.err = "NoEnd"
    /\ last.id = last.pre.end /\ last.pre.gaps # <<>> /\ DOMAIN last.pre.check # {}

OpenWithStep == last' # last /\ last'.op = "open_with"

Expected(key) == IF key \in DOMAIN hist.model THEN Some(hist.model[key]) ELSE None

AllKeys == DbKeys \cup FirstFresh..(FirstFresh + MaxFresh)

Holders(key) == {i \in DOMAIN db.fsts : FstGet(db.fsts[i].fst, key) # None}

\* C14: within a session of set, flush and merge calls (and the flushes set
\* makes at the threshold), get(k) is the value of the most recent set(k, v)
\* and None for a key never set: the memtable shadows the FSTs and the FST
\* of the highest id wins among them
LastWriteWins == db.open => \A key \in AllKeys : DbGet(db, key) = Expected(key)

\* a key in the memtable and in two FSTs that hold different values for it,
\* after a flush made by set at the threshold
LastWriteWinsWitness ==
    /\ db.open /\ hist.n.fresh >= memory_threshold - Cardinality(DbKeys)
    /\ \E key \in DOMAIN db.held :
          \E i, j \in Holders(key) :
              /\ db.fsts[i].id < db.fsts[j].id
              /\ FstGet(db.fsts[i].fst, key) # FstGet(db.fsts[j].fst, key)
              /\ FstGet(db.fsts[j].fst, key) # Some(db.held[key])

\* C15: after a kill at any point after set(k, v) returned Ok, or a drop,
\* the Database opens again and get(k) is the last value set for k, for
\* every key, however many sets, flushes, kills and opens went before
DurableSet ==
    (hist.call.op = "open" /\ ~hist.torn) =>
        hist.call.ok /\ \A key \in AllKeys : DbGet(db, key) = Expected(key)

OpenTornStep == hist' # hist /\ hist'.call.op = "open_torn"

\* the map after the first n sets the log holds, on top of what was set
\* before the log was last emptied
AfterPrefix(n) ==
    Replay(SubSeq(Extract(disk.log, 0, Len(disk.log)).items, 1, n), hist.flushed)

\* C16: the open of a Database whose log was cut at any byte offset
\* succeeds, the map is the one after some prefix of the sets made, the log
\* is empty and there is no log_backup
TornLogReplay ==
    [][OpenTornStep =>
        /\ hist'.call.ok
        /\ disk'.log = <<>> /\ ~disk'.has_backup
        /\ \E n \in 0..Len(Extract(disk.log, 0, Len(disk.log)).items) :
              \A key \in AllKeys :
                  DbGet(db', key) = IF key \in DOMAIN AfterPrefix(n)
                                    THEN Some(AfterPrefix(n)[key]) ELSE None]_vars

\* an open of a directory left by a kill inside restore_log, with log_backup
OpenAfterKilledRestoreStep ==
    /\ hist' # hist /\ hist'.call.op = "open"
    /\ hist.call.op = "kill" /\ hist.call.inside = "open" /\ ~hist.torn
    /\ disk.has_backup

\* every Insert of log_backup and then of the log, last write wins
Logged ==
    Replay(Extract(disk.log_backup, 0, Len(disk.log_backup)).items
               \o Extract(disk.log, 0, Len(disk.log)).items, NoMap)

\* C17: when restore_log was killed after it had made log_backup, the next
\* open replays every Insert of log_backup and then those of the log: no
\* Insert that was in the log before the first recovery is lost
InterruptedRestoreRecovers ==
    [][OpenAfterKilledRestoreStep =>
        /\ hist'.call.ok
        /\ \A key \in DOMAIN Logged : DbGet(db', key) = Some(Logged[key])]_vars

StrictlyIncreasing(fst) == \A i \in 1..(Len(fst) - 1) : fst[i][1] < fst[i + 1][1]

SharedKeys == {key \in AllKeys : Cardinality(Holders(key)) >= 2}

\* C18 as claimed: after any flush or merge every active FST holds strictly
\* increasing keys and no key is in two active FSTs
OneFstPerKey ==
    db.open => /\ \A i \in DOMAIN db.fsts : StrictlyIncreasing(db.fsts[i].fst)
               /\ SharedKeys = {}

\* C18 amended: flush and merge return Ok and leave every active FST with
\* strictly increasing keys, each key once in it; a key may be in several
\* active FSTs (a flush that merges nothing writes the memtable to a new
\* FST), except after merge, which leaves one active FST at most
SortedFsts ==
    db.open =>
        /\ hist.call.ok
        /\ \A i \in DOMAIN db.fsts :
              /\ StrictlyIncreasing(db.fsts[i].fst)
              /\ db.fsts[i].count = Len(db.fsts[i].fst)
        /\ hist.call.op = "merge" => Len(db.fsts) <= 1 /\ SharedKeys = {}

\* after a flush, two active FSTs of several keys that share one
SortedFstsWitness ==
    /\ db.open /\ hist.call.op = "flush" /\ SharedKeys # {}
    /\ \A i \in DOMAIN db.fsts : Len(db.fsts[i].fst) >= 2

\* C19: at every point of every flush, merge and open and after any kill,
\* each (id, level) of the index file names an FST file that exists and
\* holds what the entry was written for: a file the index names is never
\* unlinked or written over
NoDanglingIndex ==
    \A i \in DOMAIN disk.index :
        LET path == <<disk.index[i].id, disk.index[i].level>>
        IN  path \in DOMAIN disk.fst /\ disk.fst[path] = disk.made[i]


(***************************************************************************)
(* Properties of the Lookup.                                               *)
(***************************************************************************)
\* no call of the Lookup is in progress and none has failed
LkIdle == lk.call.pc = "idle" /\ lk.call.ok /\ pc = "idle"

\* C20: after Lookup::set(key, v0) and any inserts for the key, each with the
\* Idx the call before returned, get(get_idx(key)) decodes to a strictly
\* ascending list whose elements are the distinct values given, and get_idx
\* is the Idx the last call returned
MultiValueOrdering ==
    LkIdle =>
        \A key \in LkKeys :
            lk.idx[key] # 0 =>
                LET got == LookupGet(db, backing, key)
                IN  /\ DbGet(db, key) = Some(lk.idx[key])
                    /\ got.ok
                    /\ \A i \in 1..(Len(got.items) - 1) : got.items[i] < got.items[i + 1]
                    /\ Range(got.items) = Range(lk.given[key])

\* set 300, insert 1, insert 300: the list is 1, 300
MultiValueOrderingWitness ==
    /\ LkIdle
    /\ \E key \in LkKeys :
        /\ lk.given[key] = <<300, 1, 300>>
        /\ lk.call.op = "insert" /\ lk.call.key = key
        /\ LookupGet(db, backing, key).items = <<1, 300>>

\* the record the map names for key is Written and decodes to the values
\* given for key by the calls that have set the map
Pointed(key) ==
    LET n == DbGet(db, key)
        got == LookupGet(db, backing, key)
    IN  /\ n # None
        /\ TagRead(backing, IdxNew(n[1])[1]).kind = "Written"
        /\ got.ok
        /\ Range(got.items) = Range(lk.given[key])

\* C21: at every step of Lookup::insert and after a kill at any step
\* followed by Lookup::open, the id the map holds for a key names a Written
\* record, and that record decodes to the list before the insert until the
\* map is set and to the list after it from then on
InsertOrdering ==
    (alive /\ db.open) =>
        \A key \in LkKeys : DbGet(db, key) # None => Pointed(key)

\* a kill between the set of the map and the remove: the old record is still
\* Written and no key names it, the key names the new record
InsertOrderingWitness ==
    /\ alive /\ db.open
    /\ lk.call.op = "crash" /\ lk.call.at = "remove" /\ last.op = "crash"
    /\ TagRead(backing, IdxNew(lk.call.old)[1]).kind = "Written"
    /\ DbGet(db, lk.call.key) = Some(lk.call.new)
    /\ lk.call.new # lk.call.old
    /\ Pointed(lk.call.key)
    /\ Len(lk.given[lk.call.key]) = 2

\* the offsets of the slab a record or a gap covers
Span(at, n) == at .. (at + n - 1)

\* the records of the slab and the gap list tile [header_length, end): the
\* reading from the header meets Written and Deleted records only and gets
\* to the End tag at `end`, and the gaps cover the Deleted records, each
\* offset once
Tiled ==
    LET sc == ScanRecords(backing, header_length)
        deleted == UNION {Span(sc.recs[i].at, sc.recs[i].tag_len + sc.recs[i].length) :
                             i \in {j \in DOMAIN sc.recs : sc.recs[j].kind = "Deleted"}}
        gapped == UNION {Span(gaps[i].at, gaps[i].tag_len + gaps[i].length) :
                            i \in DOMAIN gaps}
    IN  /\ sc.why = "End" /\ sc.stop = end
        /\ \A i \in DOMAIN sc.recs : sc.recs[i].kind \in {"Written", "Deleted"}
        /\ gapped = deleted
        /\ \A i, j \in DOMAIN gaps :
              i # j => Span(gaps[i].at, gaps[i].tag_len + gaps[i].length)
                           \cap Span(gaps[j].at, gaps[j].tag_len + gaps[j].length) = {}

\* the offsets of the Written records no key of the map names
Unreferenced ==
    LET sc == ScanRecords(backing, header_length)
    IN  {sc.recs[i].at : i \in {j \in DOMAIN sc.recs : sc.recs[j].kind = "Written"}}
            \ {DbGet(db, key)[1] \div 256 : key \in {k \in LkKeys : DbGet(db, k) # None}}

CleanupDone == lk.call.op = "cleanup" /\ lk.call.ok /\ lk.call.pc = "idle"

\* C22: after Lookup::cleanup returns Ok every key decodes to the list it
\* decoded to before
CleanupKeepsLists ==
    CleanupDone => \A key \in LkKeys : LookupGet(db, backing, key) = lk.was[key]

\* C22: after Lookup::cleanup returns Ok the new slab passes open() and its
\* records and gaps tile [header_length, end)
CleanupTiles ==
    CleanupDone => (Open(backing, SpecMagic, "Error").ok /\ Tiled)

\* C22: after Lookup::cleanup returns Ok no record of the new slab is live
\* unless a key references it
CleanupDropsUnreferenced == CleanupDone => Unreferenced = {}

CleanupDoneWitness ==
    /\ CleanupDone
    /\ \E key \in LkKeys : lk.was[key].ok /\ Len(lk.was[key].items) = 2
    /\ gaps # <<>>

\* C23: of the add calls that one Ark has returned from, two with the same
\* stream were given the same ObjectId, the file of one of them at most was
\* kept, and two with different streams were given different ObjectIds; at
\* most one add is between the lookup of the candidates and the
\* registration of its id
DedupConcurrent ==
    /\ \A r1, r2 \in ark.returned :
          r1.epoch = r2.epoch => ((r1.stream = r2.stream) <=> (r1.id = r2.id))
    /\ \A r1, r2 \in ark.returned :
          (r1.epoch = r2.epoch /\ r1.stream = r2.stream /\ r1.nth # r2.nth)
              => ~(r1.fresh /\ r2.fresh)
    /\ Cardinality({t \in ArkTasks : ark.tasks[t].pc \in {"locked", "new", "register"}}) <= 1

\* C24: the ObjectId returned for new content differs from every ObjectId
\* returned before for a different stream, and no rename of a new object
\* goes over the file of an object whose ObjectId an add has returned
FreshIds ==
    /\ \A r1, r2 \in ark.returned :
          (r2.fresh /\ r1.nth < r2.nth /\ r1.stream # r2.stream) => r1.id # r2.id
    /\ ark.replaced = {}

\* each lock file has one holder at most, and one Ark at most is open
OneHolder ==
    /\ \A path \in LockPaths : Cardinality(ark.locks[path]) <= 1
    /\ Cardinality({o \in Openers : ark.inst[o].pc = "open"}) <= 1
    /\ \A o \in Openers : ark.inst[o].pc = "open" => \A path \in LockPaths : o \in ark.locks[path]

\* a Lock::new on the lock file of the data directory returns an error and
\* takes nothing while a Lock holds the file, and takes the lock when none does
LockTold ==
    \A o \in Openers :
        (ark.inst[o].pc = "closed" /\ ark'.inst[o].tries = ark.inst[o].tries + 1)
            => IF ark.locks["data"] # {}
               THEN /\ ark'.inst[o].told = "Err"
                    /\ ark'.inst[o].pc = "closed"
                    /\ ark'.locks = ark.locks
               ELSE /\ ark'.locks["data"] = {o}
                    /\ ark'.inst[o].told # "Err"

\* C25: at any time one Lock at most holds a lock file and one Ark at most
\* is open; a Lock::new on a file that a live Lock holds returns an error
\* at once, and a Lock::new on a file whose holder was dropped takes the lock
LockExclusive == []OneHolder /\ [][LockTold]_vars

\* an opener that was refused while the other held the locks has opened the
\* Ark after the other was dropped
LockExclusiveWitness ==
    \E o \in Openers :
        /\ ark.inst[o].refused > 0 /\ ark.inst[o].pc = "open"
        /\ \E p \in Openers \ {o} : ark.inst[p].tries > 0 /\ ark.inst[p].pc = "closed"

\* the gaps add may take for `required` bytes: of the gaps of size required,
\* or of required + 5 and more, the first eight in the order of the list
Considered(gs, required) ==
    LET fitting == {i \in DOMAIN gs : GapSize(gs[i]) = required
                                         \/ GapSize(gs[i]) >= required + 5}
    IN  {i \in fitting : Cardinality({j \in fitting : j < i}) < 8}

\* the smallest of them, the earliest of the smallest
Taken(gs, required) ==
    CHOOSE i \in Considered(gs, required) :
        \A j \in Considered(gs, required) :
            GapSize(gs[i]) < GapSize(gs[j]) \/ (GapSize(gs[i]) = GapSize(gs[j]) /\ i <= j)

\* the first step of an add: from between calls to the Writing tag written
AddBegins == pc = "idle" /\ pc' = "tag"

\* the place the add in progress writes at is the place of the gap taken, or
\* `end` when no gap is considered; an exact fit leaves no gap behind
PlacedAsChosen ==
    LET required == WrittenLength("Writing", Len(cur'.bytes)) + Len(cur'.bytes)
    IN  IF Considered(gaps, required) = {}
        THEN cur'.start = end /\ gaps' = gaps
        ELSE /\ cur'.start = gaps[Taken(gaps, required)].at
             /\ Len(gaps') = Len(gaps) - 1
             /\ \A i \in DOMAIN gaps : i # Taken(gaps, required)
                                         => \E j \in DOMAIN gaps' : gaps'[j] = gaps[i]
             /\ (cur'.old_gap = <<>>) <=> (GapSize(gaps[Taken(gaps, required)]) = required)
             /\ (Len(gaps) = 1 /\ GapSize(gaps[1]) = required) => gaps' = <<>>

\* C26: add places the record at the start of the smallest of the first 8
\* gaps, in gap-list order, whose size is the required size or that size
\* plus 5 and more, the earliest on ties, and at `end` only when no gap
\* qualifies; an add that fits the only gap exactly takes its place and
\* leaves the gap list empty
GapSelection == [][AddBegins => PlacedAsChosen]_vars

\* after the adds of two records and the remove of the first, an add of the
\* length of the first has returned its place and the gap list is empty
GapSelectionWitness ==
    /\ pc = "idle" /\ last.op = "add" /\ last.ok
    /\ last.id = header_length /\ last.id < end
    /\ gaps = <<>>

\* the step of add that flips the tag byte, and the step that returns the id
Flips == pc = "flushed" /\ pc' = "flipped"
ReturnsId == pc = "flipped" /\ pc' = "idle" /\ last'.op = "add" /\ last'.ok

\* what add has written when it flips: the Writing tag, the payload, the
\* Deleted tag of the rest of a gap that was split, the End tag after a
\* record put at the end
WrittenBeforeFlip ==
    /\ Slice(backing, cur.start, cur.start + Len(FirstTag(cur.bytes)) + Len(cur.bytes))
           = FirstTag(cur.bytes) \o cur.bytes
    /\ cur.old_gap # <<>> =>
           LET rest == TagRead(backing, cur.start + Len(FirstTag(cur.bytes)) + Len(cur.bytes))
           IN  /\ rest.kind = "Deleted"
               /\ rest.next + rest.length = cur.start + GapSize(cur.old_gap[1])
    /\ cur.expected = "End" =>
           /\ end = cur.start + Len(FirstTag(cur.bytes)) + Len(cur.bytes)
           /\ TagRead(backing, end).kind = "End"
           /\ end \in cur.dirty

\* the flip changes the one byte at `start`, from Writing to Written with the
\* same low bits
OneByteFlipped ==
    /\ Len(backing') = Len(backing)
    /\ {i \in DOMAIN backing : backing'[i] # backing[i]} = {cur.start + 1}
    /\ KindOf(backing[cur.start + 1]) = "Writing"
    /\ KindOf(backing'[cur.start + 1]) = "Written"
    /\ backing'[cur.start + 1] % 32 = backing[cur.start + 1] % 32

\* C27: within add, the Writing tag, the payload and, when there is one, the
\* Deleted tag of the remainder or the new End tag are written, and a flush
\* that covers every byte add has written is issued, before the tag byte is
\* flipped; the flip changes exactly one byte, its kind bits only; a flush of
\* that byte follows before add returns the id
AddOrdering ==
    [][/\ pc' = "flipped" => pc \in {"flushed", "flipped"}
       /\ Flips => /\ WrittenBeforeFlip
                   /\ cur.dirty # {} /\ cur.dirty \subseteq cur.flushed
                   /\ OneByteFlipped
       /\ ReturnsId => /\ backing' = backing
                       /\ last'.id = cur.start
                       /\ cur.dirty \ cur.flushed = {cur.start}
                       /\ cur.start \in last'.flushed]_vars

\* an add that split a gap has flipped its tag byte after the flush of the
\* record and of the Deleted tag behind it
AddOrderingWitness ==
    /\ pc = "flipped" /\ cur.old_gap # <<>>
    /\ KindOf(backing[cur.start + 1]) = "Written"
    /\ cur.dirty \ cur.flushed = {cur.start}

\* a retain call has just returned
RetainStep == last' # last /\ last'.op = "retain"

\* the place in the list where retain stops early: the first Break, or the
\* first id that is not above the id before it; 0 when there is none
StopAt(ids) ==
    LET stops == {k \in DOMAIN ids : ids[k] = BREAK \/ (k > 1 /\ ids[k - 1] >= ids[k])}
    IN  IF stops = {} THEN 0 ELSE CHOOSE k \in stops : \A j \in stops : k <= j

\* the records a scan of the slab finds Written, by their offsets
WrittenIn(b) ==
    LET recs == ScanRecords(b, header_length).recs
    IN  {recs[i].at : i \in {j \in DOMAIN recs : recs[j].kind = "Written"}}

\* the first offset after the record that holds the offset id
Beyond(b, id) ==
    LET recs == ScanRecords(b, header_length).recs
        ends == {recs[i].at + recs[i].tag_len + recs[i].length : i \in DOMAIN recs}
    IN  CHOOSE e \in ends : e > id /\ \A f \in ends : f > id => e <= f

\* what a retain that stopped at place k left: `accepted` are the ids before
\* k, `beyond` the first offset after the record of the last of them, `was`
\* and `now` the records found Written before and after the call
StoppedEarly(ids, k, accepted, beyond, was, now) ==
    /\ last'.err = (IF ids[k] = BREAK THEN "Break" ELSE "UnsortedInputs")
    /\ ~last'.ok
    /\ Len(backing') = Len(backing) /\ end' = end
    /\ \A i \in DOMAIN backing : i > beyond => backing'[i] = backing[i]
    /\ \A id \in was :
          IF id \in accepted \/ id >= beyond
          THEN id \in now /\ Get(backing', id) = Get(backing, id)
          ELSE /\ id \notin now
               /\ \E i \in DOMAIN gaps' :
                     gaps'[i].at <= id /\ id < gaps'[i].at + GapSize(gaps'[i])

\* C28: when retain stops early, on a Break or on an id that is not above
\* the one before it (UnsortedInputs), every record beyond the last id it
\* accepted is unchanged, and every live record before that id that was not
\* named is deleted
RetainStopsEarly ==
    [][(RetainStep /\ StopAt(last'.ids) # 0) =>
          LET ids == last'.ids
              k == StopAt(ids)
              accepted == {ids[j] : j \in 1..(k - 1)}
          IN  StoppedEarly(ids, k, accepted,
                           IF k = 1 THEN header_length
                           ELSE Beyond(backing, ids[k - 1]),
                           WrittenIn(backing), WrittenIn(backing'))]_vars

\* of five live records retain was given the first, the fifth and the third:
\* it returned UnsortedInputs, the second, third and fourth are deleted
RetainStopsEarlyWitness ==
    /\ pc = "idle" /\ last.op = "retain" /\ last.err = "UnsortedInputs"
    /\ Len(last.ids) = 3 /\ last.ids[1] < last.ids[3] /\ last.ids[3] < last.ids[2]
    /\ Cardinality({id \in DOMAIN check : id <= last.ids[2]}) = 5
    /\ WrittenIn(backing) \cap {id \in DOMAIN check : id <= last.ids[2]}
           = {last.ids[1], last.ids[2]}

\* the gap list names exactly the Deleted records a scan finds, each once,
\* and no gap ends where another begins
GapsExact ==
    /\ Range(gaps) = DeletedBySlab
    /\ Cardinality(Range(gaps)) = Len(gaps)
    /\ \A i, j \in DOMAIN gaps : gaps[i].at + gaps[i].tag_len + gaps[i].length # gaps[j].at

\* an open with Rollback has returned after a process died inside add
RolledBack ==
    Recovered /\ alive /\ last.ok /\ last.strat = "Rollback" /\ last.pc \in BeforeFlip

\* C29: after retain returns Ok, also on a store that held Deleted records,
\* and after an open with Rollback that converted a Writing record, the gap
\* list names exactly the Deleted records a scan of the slab finds, and
\* adjacent Deleted records are coalesced
GapsAfterRetainAndRollback == ((Retained /\ alive) \/ RolledBack) => GapsExact

\* a flush call returns; the memtable held something
FlushStep == hist'.n.flushes = hist.n.flushes + 1 /\ db.held # NoMap

\* the levels of the active FSTs and the FSTs of a level
Levels == {db.fsts[i].level : i \in DOMAIN db.fsts}
OnLevel(l) == {i \in DOMAIN db.fsts : db.fsts[i].level = l}
UpTo(ls) == {i \in DOMAIN db.fsts : \E l \in ls : db.fsts[i].level <= l}

\* the flush has merged the FSTs at the positions `merged` and the memtable
\* into one new FST; the other FSTs are active as before, and so are their
\* files
FlushMerged(merged) ==
    LET kept == Pick(db.fsts, DOMAIN db.fsts \ merged, 1)
        new == db'.fsts[Len(db'.fsts)]
    IN  /\ hist'.call.ok
        /\ db'.held = NoMap
        /\ Len(db'.fsts) = Len(kept) + 1
        /\ SubSeq(db'.fsts, 1, Len(kept)) = kept
        /\ FstKeys(new.fst) = DOMAIN db.held
                                \cup UNION {FstKeys(db.fsts[i].fst) : i \in merged}
        /\ \A i \in DOMAIN db.fsts : new.id # db.fsts[i].id
        /\ \A path \in DOMAIN disk.fst :
              (\A i \in merged : path[1] # db.fsts[i].id)
                  => path \in DOMAIN disk'.fst /\ disk'.fst[path] = disk.fst[path]

\* C30 as claimed: a flush with a non-empty memtable merges the memtable and
\* the FSTs of every level up to the highest level that holds fanout FSTs or
\* more, and only the memtable when no level does; the other FSTs stay as
\* they are
FlushMergesToHighestFull ==
    [][FlushStep =>
          FlushMerged(UpTo({l \in Levels : Cardinality(OnLevel(l)) >= fanout}))]_vars

\* C30 amended: a flush with a non-empty memtable merges the memtable and
\* the FSTs of every level up to the highest level L such that L and every
\* lower level that holds an FST hold fanout FSTs or more; when the lowest
\* level that holds an FST holds fewer, only the memtable is written to a
\* new FST, whatever the higher levels hold; the other FSTs stay as they are
FlushMergePolicy ==
    [][FlushStep =>
          FlushMerged(UpTo({l \in Levels :
                              \A m \in Levels : m <= l => Cardinality(OnLevel(m)) >= fanout}))]_vars

\* a flush has written the memtable alone to a new FST while a level above
\* the lowest held fanout FSTs: they are still active
FlushMergePolicyWitness ==
    /\ db.open /\ hist.call.op = "flush" /\ hist.call.ok /\ hist.n.flushes = 1
    /\ \E l \in Levels :
          /\ Cardinality(OnLevel(l)) >= fanout
          /\ \E m \in Levels : m < l /\ Cardinality(OnLevel(m)) < fanout
          /\ \A i \in OnLevel(l) : db.fsts[i].id < db.fsts[Len(db.fsts)].id
    /\ db.fsts[Len(db.fsts)].level = 0

(***************************************************************************)
(* The FST a merge leaves, the callback of merge, the ids and the levels   *)
(* of the FSTs, and the log.                                               *)
(***************************************************************************)
\* the memtable merge_fsts drains in a step: the one of the Database, with
\* the pair of the call when the call is a set
Drained ==
    IF hist'.call.op = "set" THEN Put(db.held, hist'.call.key, hist'.call.value)
    ELSE db.held

\* a step in which merge_fsts has run and returned Ok: a flush or a set at
\* the threshold with a memtable that is not empty, or a merge of a
\* Database that holds anything
MergeFstsStep ==
    /\ db.open /\ db'.open /\ hist'.call.ok
    /\ hist'.call.op \in {"set", "flush", "merge"}
    /\ hist'.n # hist.n
    /\ db'.held = NoMap
    /\ Drained # NoMap \/ (hist'.call.op = "merge" /\ db.fsts # <<>>)

\* the FSTs of d that are not among kept
NotAmong(d, kept) == {i \in DOMAIN d.fsts : \A j \in DOMAIN kept : kept[j] # d.fsts[i]}

\* the value of the FST of greatest id among the FSTs `merged` of d that
\* hold the key
TopValue(d, merged, key) ==
    LET holders == {i \in merged : FstGet(d.fsts[i].fst, key) # None}
        top == CHOOSE i \in holders : \A j \in holders : d.fsts[j].id <= d.fsts[i].id
    IN  FstGet(d.fsts[top].fst, key)

\* new holds the keys of held and of the FSTs `merged` of d, each once and
\* ascending, with the value of held or else of the FST of greatest id
CollisionRule(d, held, merged, new) ==
    /\ StrictlyIncreasing(new.fst)
    /\ FstKeys(new.fst) = DOMAIN held \cup UNION {FstKeys(d.fsts[i].fst) : i \in merged}
    /\ \A key \in FstKeys(new.fst) :
          FstGet(new.fst, key) = IF key \in DOMAIN held THEN Some(held[key])
                                 ELSE TopValue(d, merged, key)

\* C31: the FST merge_fsts produces holds each key of the merged FSTs and of
\* the memtable exactly once, in strictly increasing key order, with the
\* value of the memtable when the memtable holds the key and else the value
\* of the merged FST of the greatest id among those that hold the key
MergeCollisionRule ==
    [][MergeFstsStep =>
          /\ db'.fsts # <<>>
          /\ CollisionRule(db, Drained,
                           NotAmong(db, SubSeq(db'.fsts, 1, Len(db'.fsts) - 1)),
                           db'.fsts[Len(db'.fsts)])]_vars

\* a merge has returned Ok on a Database of two FSTs that held different
\* values for a key the memtable did not hold, and of a memtable that held
\* a second key
MergeCollisionRuleWitness ==
    /\ db.open /\ hist.call.op = "merge" /\ hist.call.ok /\ Len(db.fsts) = 1
    /\ \E key \in DbKeys \ DOMAIN hist.call.before.held :
          \E i, j \in DOMAIN hist.call.before.fsts :
              /\ hist.call.before.fsts[i].id < hist.call.before.fsts[j].id
              /\ FstGet(hist.call.before.fsts[i].fst, key) # None
              /\ FstGet(hist.call.before.fsts[j].fst, key) # None
              /\ FstGet(hist.call.before.fsts[i].fst, key)
                    # FstGet(hist.call.before.fsts[j].fst, key)
    /\ hist.call.before.held # NoMap

\* C32: after merge(callback) has returned Ok there is one active FST at
\* most, it holds every key ever set with the last value set for it, the
\* memtable and the log are empty, and the callback has been called once for
\* each key, in strictly ascending key order, with the last value set for it
FullMerge ==
    (db.open /\ hist.call.op = "merge" /\ hist.call.ok) =>
        /\ Len(db.fsts) <= 1
        /\ db.fsts = IF hist.model = NoMap THEN <<>>
                     ELSE <<LevelFst(Cardinality(DOMAIN hist.model), db.fsts[1].id,
                                     db.fsts[1].level, SortedItems(hist.model))>>
        /\ db.held = NoMap
        /\ disk.log = <<>>
        /\ hist.call.called = SortedItems(hist.model)

\* a merge has returned Ok on a Database of two FSTs and of a memtable that
\* held a key of the FSTs with another value: the callback has been called
\* for two keys
FullMergeWitness ==
    /\ db.open /\ hist.call.op = "merge" /\ hist.call.ok
    /\ Len(hist.call.before.fsts) >= 2
    /\ \E key \in DOMAIN hist.call.before.held :
          \E i \in DOMAIN hist.call.before.fsts :
              /\ FstGet(hist.call.before.fsts[i].fst, key) # None
              /\ FstGet(hist.call.before.fsts[i].fst, key)
                    # Some(hist.call.before.held[key])
    /\ Len(hist.call.called) >= 2
    /\ Len(db.fsts) = 1

\* C33: a merge whose callback fails returns that error and leaves the map
\* as it was: get returns for every key what it returned before the call
\* (also for the keys of the memtable alone), the active FSTs and the index
\* are unchanged and no FST file has been unlinked
FailedMergeChangesNothing ==
    [][(db.open /\ hist'.n.merges # hist.n.merges /\ ~hist'.call.ok) =>
          /\ db'.open
          /\ \A key \in AllKeys : DbGet(db', key) = DbGet(db, key)
          /\ db'.fsts = db.fsts
          /\ disk'.index = disk.index
          /\ disk'.fst = disk.fst]_vars

\* what does hold after such a merge: the callback has failed on the last
\* pair it was called with, the FSTs, the index, the FST files and the log
\* are unchanged, and get differs for the keys of the memtable alone, which
\* it no longer finds
FailedMergeKeepsFiles ==
    [][(db.open /\ hist'.n.merges # hist.n.merges /\ ~hist'.call.ok) =>
          /\ db'.open /\ db'.held = NoMap
          /\ hist'.call.called # <<>>
          /\ db'.fsts = db.fsts
          /\ disk' = disk
          /\ \A key \in AllKeys :
                DbGet(db', key) = DbGet([db EXCEPT !.held = NoMap], key)]_vars

\* C34: after any sets, flushes, merges, kills and opens the ids of the
\* active FSTs are pairwise distinct, and an FST a call has created has an id
\* above the id of every FST that stays active beside it and a file name
\* that was not the name of an active FST
UniqueFstIds ==
    db.open =>
        /\ \A i, j \in DOMAIN db.fsts : i # j => db.fsts[i].id # db.fsts[j].id
        /\ (hist.call.op \in {"set", "flush", "merge"} /\ hist.call.ok /\ db.fsts # <<>>) =>
              \A i \in 1..(Len(db.fsts) - 1) : db.fsts[i].id < db.fsts[Len(db.fsts)].id

\* what holds of the ids: in one process and without merge, from a new
\* Database, the ids are pairwise distinct and the last FST has the highest
UniqueFstIdsInProcess ==
    (db.open /\ hist.n.kills = 0 /\ hist.n.merges = 0) =>
        /\ \A i, j \in DOMAIN db.fsts : i # j => db.fsts[i].id # db.fsts[j].id
        /\ \A i \in 1..(Len(db.fsts) - 1) : db.fsts[i].id < db.fsts[Len(db.fsts)].id
        /\ \A i \in DOMAIN db.fsts : db.fsts[i].id < db.fst_count

\* C35: the level an FST has in memory and in the index is the level of its
\* file name, also when the merged FSTs and the memtable share keys, so that
\* the merged FST holds fewer keys than the sum of their counts: every entry
\* of the index names a file, and an open after a drop finds every FST
LevelsAgree ==
    /\ \A i \in DOMAIN disk.index :
          <<disk.index[i].id, disk.index[i].level>> \in DOMAIN disk.fst
    /\ db.open => \A i \in DOMAIN db.fsts :
                     <<db.fsts[i].id, db.fsts[i].level>> \in DOMAIN disk.fst
    /\ hist.call.op = "open" => hist.call.ok

\* what holds of the levels in the process that created the Database: the
\* file of an FST a flush has created is named by the level of the number of
\* keys it holds, and the index by the level of the sum of the counts of
\* what was merged
LevelsOfNewFst ==
    [][(MergeFstsStep /\ db'.fsts # <<>> /\ hist.n.kills = 0) =>
          LET new == db'.fsts[Len(db'.fsts)]
              merged == NotAmong(db, SubSeq(db'.fsts, 1, Len(db'.fsts) - 1))
          IN  /\ <<new.id, CalculateLevel(new.count)>> \in DOMAIN disk'.fst
              /\ new.level = CalculateLevel(Cardinality(DOMAIN Drained)
                                              + SumCounts(Pick(db.fsts, merged, 1)))
              /\ disk'.index[Len(disk'.index)] = IndexFst(new)]_vars

\* the map the Insert items of the log replay to, the last item of a key
\* winning
Replayed(log) == Replay(Extract(log, 0, Len(log)).items, NoMap)

\* C36: after every set, flush, merge or open that returned Ok the Insert
\* items of the log replay to the memtable; after a set the memtable holds
\* fewer than memory_threshold entries; after a flush or a merge the
\* memtable and the log are empty
WalMirrorsMemtable ==
    (db.open /\ hist.call.ok /\ hist.call.op \in {"set", "flush", "merge", "open"}) =>
        /\ Extract(disk.log, 0, Len(disk.log)).ok
        /\ Replayed(disk.log) = db.held
        /\ hist.call.op = "set" => Cardinality(DOMAIN db.held) < memory_threshold
        /\ hist.call.op \in {"flush", "merge"} => db.held = NoMap /\ disk.log = <<>>

\* what holds of the log: it mirrors the memtable for as long as no merge
\* has failed in its callback
WalMirrorsUntilFailedMerge ==
    (hist.n.merges = 0 \/ (hist.call.op = "merge" /\ hist.call.ok)) => WalMirrorsMemtable

\* the tasks that hold a Token
Outstanding == {t \in PoolTasks : ark.tasks[t].pc = "holding"}

\* C37: at any time a TokenDistributor of limit n has n Tokens outstanding
\* at most, no two of them with the same id, and no drop of a Token has
\* blocked; an acquire completes only when fewer than n Tokens are
\* outstanding, so one that is called while n are waits for a drop
TokenPool ==
    /\ [](/\ Cardinality(Outstanding) <= ark.limit
          /\ \A t, u \in Outstanding : t # u => ark.tasks[t].token # ark.tasks[u].token
          /\ \A t \in Outstanding : ark.tasks[t].token \in 0 .. (ark.limit - 1)
          /\ \A t \in PoolTasks : ark.tasks[t].pc # "blocked")
    /\ [][\A t \in PoolTasks :
            (ark.tasks[t].pc = "recv" /\ ark'.tasks[t].pc = "holding")
                => Cardinality(Outstanding) < ark.limit]_vars

\* every Token of a distributor of limit two or more is outstanding again
\* after as many drops, while a task waits in acquire
TokenPoolWitness ==
    /\ ark.limit >= 2 /\ Cardinality(Outstanding) = ark.limit /\ ark.tokens = <<>>
    /\ ark.drops >= ark.limit
    /\ \E t \in PoolTasks : ark.tasks[t].pc = "recv"

\* the selector bits of a byte
Masked(byte) == (byte \div 32) * 32

\* C38: for the kinds Writing, Written and Deleted and a length of 0 to
\* 2^27 - 1, read returns the kind and the length of the tag write wrote,
\* and consumes the bytes written, which are written_length of the tag and
\* one to four; End is written as one byte; the four selectors are pairwise
\* distinct and none is 000, so that read of a zero byte returns UnknownTag
\* and leaves the position where it was
TagRoundTrip ==
    /\ (cur.op = "write" /\ pc \in {"written", "read"}) =>
          /\ cur.position - cur.start = WrittenLength(cur.kind, cur.length)
          /\ cur.position - cur.start \in 1 .. 4
          /\ cur.kind = "End" => cur.position = cur.start + 1
    /\ (cur.op = "write" /\ pc = "read") =>
          /\ last.kind = cur.kind
          /\ last.length = cur.length
          /\ last.next = cur.position
    /\ (cur.op = "write" /\ cur.length <= MaxTagLength) => pc # "panic"
    /\ Cardinality({END, WRITING, WRITTEN, DELETED, 0}) = 5
    /\ \A sel \in {END, WRITING, WRITTEN, DELETED} : Masked(sel) = sel /\ sel < 256
    /\ (cur.op = "read" /\ pc = "read") => last.kind = "Unknown" /\ last.next = cur.start

\* the tag of the greatest length has been written as four bytes away from
\* the start of the backing and read again
TagRoundTripWitness ==
    /\ cur.op = "write" /\ pc = "read" /\ cur.kind = "Deleted"
    /\ cur.length = MaxTagLength /\ cur.start > 0 /\ cur.position = cur.start + 4
    /\ last.length = MaxTagLength

\* a write_exact that was called with a tag and a tag_len, not by way of
\* calc_tag_len
ExactCall == cur.op = "write_exact" /\ cur.total_len = 0

\* C39: write_exact(tag, pos, tag_len), for the kinds Writing, Written and
\* Deleted, any length and any tag_len from written_length of the tag to 4,
\* moves pos on by tag_len bytes exactly, and read at the first position
\* returns the kind and the length and consumes tag_len bytes
WriteExactAdvances ==
    /\ ExactCall => pc # "panic"
    /\ (ExactCall /\ pc \in {"written", "read"}) => cur.position = cur.start + cur.tag_len
    /\ (ExactCall /\ pc = "read") =>
          /\ last.kind = cur.kind
          /\ last.length = cur.length
          /\ last.next = cur.start + cur.tag_len

\* what holds of write_exact: it does not panic, read returns the kind and
\* the length and consumes the bytes written; they are tag_len bytes when
\* tag_len is written_length of the tag, or one more while the highest byte
\* of the length fits the three bits of the tag, and fewer otherwise
WriteExactReadsBack ==
    /\ ExactCall => pc # "panic"
    /\ (ExactCall /\ pc \in {"written", "read"}) =>
          LET bits == NeededBits(cur.length)
              exact == \/ cur.tag_len = WrittenLength(cur.kind, cur.length)
                       \/ /\ cur.tag_len = WrittenLength(cur.kind, cur.length) + 1
                          /\ bits % 8 \in 1 .. 3
          IN  /\ exact <=> cur.position = cur.start + cur.tag_len
              /\ cur.position <= cur.start + cur.tag_len
    /\ (ExactCall /\ pc = "read") =>
          /\ last.kind = cur.kind
          /\ last.length = cur.length
          /\ last.next = cur.position

\* write_exact was called with what calc_tag_len returned for a span
FramedCall == cur.op = "write_exact" /\ cur.total_len > 0

\* calc_tag_len does not panic; the tag and the payload it returns fill the
\* span, with one to four tag bytes; the Deleted record write_exact writes
\* with them ends where the span ends
FramesSpan ==
    /\ (cur.op = "calc_tag_len" \/ FramedCall) => pc # "panic"
    /\ FramedCall =>
          /\ cur.tag_len + cur.length = cur.total_len
          /\ cur.tag_len \in 1 .. 4
    /\ (FramedCall /\ pc \in {"written", "read"}) =>
          cur.position + cur.length = cur.start + cur.total_len
    /\ (FramedCall /\ pc = "read") =>
          /\ last.kind = "Deleted"
          /\ last.length = cur.length
          /\ last.next + last.length = cur.start + cur.total_len

\* C40 as claimed: calc_tag_len(total_len), for total_len of 1 to 2^27 + 3,
\* returns a tag_len and a payload_len whose sum is total_len, tag_len of 1
\* to 4 and equal to written_length of a tag of length payload_len; so the
\* Deleted record add writes over the rest of a gap, and the one remove
\* writes over the merged gaps, end where the span ends
CalcTagLenMinimal ==
    /\ FramesSpan
    /\ FramedCall => cur.tag_len = WrittenLength("Deleted", cur.length)

\* C40 amended: calc_tag_len(total_len), for total_len of 1 to 2^27 + 3,
\* returns a tag_len and a payload_len whose sum is total_len, with tag_len
\* of 1 to 4 the least number t of tag bytes such that a tag of length
\* total_len - t takes t bytes at most; tag_len is written_length of a tag
\* of length payload_len, or one more for the spans of 9, 2050 and 524291
\* bytes, which no tag and payload fill otherwise (write_exact then pads the
\* tag by one byte); so the Deleted record add writes over the rest of a
\* gap, and the one remove writes over the merged gaps, end where the span
\* ends
CalcTagLenFrames ==
    /\ FramesSpan
    /\ FramedCall =>
          /\ \A t \in 1 .. (cur.tag_len - 1) :
                WrittenLength("Deleted", cur.total_len - t) > t
          /\ cur.tag_len \in {WrittenLength("Deleted", cur.length),
                               WrittenLength("Deleted", cur.length) + 1}
          /\ cur.tag_len # WrittenLength("Deleted", cur.length)
                <=> cur.total_len \in {9, 2050, 524291}

\* the Deleted record of a span of 9 bytes away from the start of the
\* backing has been written with a tag of two bytes and read again
CalcTagLenFramesWitness ==
    /\ FramedCall /\ pc = "read" /\ cur.total_len = 9 /\ cur.start > 0
    /\ cur.tag_len = 2 /\ cur.length = 7
    /\ last.kind = "Deleted" /\ last.length = 7 /\ last.next = cur.start + 2

\* get after a merge that returned Ok is get before it
MergeKeepsGet ==
    [][(db.open /\ db'.open /\ hist'.call.op = "merge" /\ hist'.call.ok)
          => \A key \in AllKeys : DbGet(db', key) = DbGet(db, key)]_vars
====
